---- MODULE Spec2Model ----
(***************************************************************************)
(* A model of the document pipeline of engineeringdocumentflow:            *)
(*   - the ingestion-and-split stage (internal/services/pdf_splitter.go):  *)
(*     PDFSplitterFunction.Process and everything it calls;                *)
(*   - the shared create-if-absent writer (gcp.SaveToGCSAtomically) and    *)
(*     the single-artifact stages that store their output.                 *)
(*                                                                         *)
(* External services are modelled by their contract: Firestore assigns a   *)
(* fresh document ID on Add and applies an Update atomically or not at     *)
(* all; Cloud Storage creates an object when a writer is finalized and an  *)
(* attempt that reports an error has created nothing; an I/O call made on  *)
(* a cancelled context fails.                                              *)
(***************************************************************************)
EXTENDS Integers, Sequences, FiniteSets, TLC

(***************************************************************************)
(* Bounds of the model.                                                    *)
(***************************************************************************)
\* Largest page count of an ingested file in the Process specification.
MaxPages == 2
\* Independent faults over one behaviour of the Process specification: an
\* I/O call or a local step that fails, a page whose upload fails (one fault
\* however many of its attempts fail), a cancellation of the caller's context.
MaxFaults == 2
\* Pages beyond the concurrency limit in the wide upload specification.
ExtraPages == 1

(***************************************************************************)
(* Program constants.                                                      *)
(***************************************************************************)
\* eg.SetLimit(10)
UploadLimit == 10
\* A loop that runs one attempt short: for i := 1; i < maxRetries; i++.
maxRetriesOneShort == 4 - 1
\* A loop that runs one attempt more: for i := 0; i <= maxRetries; i++.
maxRetriesOneMore == 4 + 1
\* const maxRetries = 4
maxRetries == 4
\* var backoff = 1 * time.Second
InitialBackoff == 1

\* The concurrent invocations of the Cloud Function.
Runs == {1, 2}

\* The bytes of the objects that trigger the function, and what pdfcpu makes
\* of them: bytes 1 is a well-formed file of MaxPages pages, bytes 2 a
\* well-formed file of one page, bytes 3 cannot be repaired.
\* Bytes 4 is a well-formed file with more pages than the upload engine
\* uploads at a time.
Contents == {1, 2, 3, 4}
Corrupt(bytes) == bytes = 3
PagesOf(bytes) ==
    CASE bytes = 1 -> MaxPages
      [] bytes = 4 -> UploadLimit + ExtraPages
      [] OTHER     -> 1

\* GCSEvent: the triggering objects. Two invocations triggered by the same
\* object, or by objects of equal bytes, process identical content.
Events ==
    { [name |-> "report.pdf", bytes |-> 1],
      [name |-> "note.pdf",   bytes |-> 2],
      [name |-> "bad.pdf",    bytes |-> 3] }

\* The files the specification of the upload engine uploads.
UploadEvents ==
    { [name |-> "report.pdf", bytes |-> 1],
      [name |-> "large.pdf",  bytes |-> 4] }

NoEvent == [name |-> "", bytes |-> 0]

\* An error is the chain of its messages, outermost first; nil is <<>>.
Nil == <<>>
ErrCanceled == <<"context canceled">>

VARIABLES
    run,         \* per invocation: position in Process and its locals
    task,        \* per invocation and page: the upload goroutine
    ledger,      \* the Firestore collection: document ID -> record
    pageStore,   \* the split-pages bucket
    executions,  \* the workflow executions created, in order
    tempDirs,    \* the temporary directories that exist
    clock,       \* time.Now()
    faults,      \* the faults the environment may still inject
    overlap,     \* whether invocations may run concurrently
    objects,     \* the buckets of the later stages: bucket -> name -> data
    call         \* the calls of the later stages' Process in progress

\* The state of the later stages, which the ingestion stage leaves alone.
stageVars == <<objects, call>>

\* The state of the ingestion stage, which the later stages leave alone.
ingestVars == <<run, task, ledger, pageStore, executions, tempDirs, clock,
                faults, overlap>>

vars == <<ingestVars, stageVars>>

Pages == 1 .. (UploadLimit + ExtraPages)

\* A faulty hash: the time of the call is hashed with the bytes.
calculateFileHashSalted(bytes) == <<"sha256", bytes, clock>>

(***************************************************************************)
(* calculateFileHash: the hex SHA-256 digest of the bytes. The digest is   *)
(* kept symbolic: two digests are equal exactly when the bytes are (no     *)
(* collision among the inputs of the model).                               *)
(***************************************************************************)
calculateFileHash(bytes) == <<"sha256", bytes>>

\* fmt.Sprintf("%s: %v", message, originalErr)
FullError(message, originalErr) == <<message>> \o originalErr

\* The outcomes of an I/O call on the caller's context (TRUE: it succeeds).
\* It fails when the context is cancelled; otherwise it may fail while a
\* fault is left in the budget.
IoOutcomes(r, budget) ==
    IF run[r].cancelled THEN {FALSE}
    ELSE IF budget > 0 THEN BOOLEAN ELSE {TRUE}

\* What an outcome takes from the budget: a failure that cancellation did
\* not cause is a fault.
IoCost(r, ok) == IF ~ok /\ ~run[r].cancelled THEN 1 ELSE 0

\* No update to FAILED was attempted.
NoUpdate == [doc |-> 0, status |-> "", errorDetails |-> Nil, ok |-> FALSE]

InitRun ==
    [ pc        |-> "idle",
      e         |-> NoEvent,
      fileHash  |-> <<>>,
      docRef    |-> 0,
      pageCount |-> 0,
      err       |-> Nil,
      tempDir   |-> 0,
      cancelled |-> FALSE,
      after     |-> {},
      created   |-> FALSE,
      next      |-> 1,
      gcancel   |-> FALSE,
      gerr      |-> Nil,
      upd       |-> NoUpdate ]

\* A goroutine of the group: where uploadFile is (st), its loop counter i,
\* backoff and lastErr, what it returned (res), the attempts it has begun,
\* and whether it was launched when the group's context was already done.
InitTask ==
    [ st |-> "pending", i |-> 0, backoff |-> InitialBackoff,
      lastErr |-> Nil, res |-> Nil, attempts |-> 0, late |-> FALSE ]

Returned == { r \in Runs : run[r].pc = "done" }

\* A faulty return: the error is logged and nil returned.
DoneDropsError(rec, err) == [rec EXCEPT !.pc = "done", !.err = Nil, !.tempDir = 0]

\* The return of Process; the deferred os.RemoveAll(tempDir) runs with it.
Done(rec, err) == [rec EXCEPT !.pc = "done", !.err = err, !.tempDir = 0]

\* A faulty directory: a fixed path in place of os.MkdirTemp.
MkdirTempFixed == CHOOSE d \in 1 .. Cardinality(Runs) : \A x \in 1 .. Cardinality(Runs) : d <= x

\* os.MkdirTemp creates a directory whose name no existing directory has.
MkdirTemp == CHOOSE d \in 1 .. Cardinality(Runs) : d \notin tempDirs

(***************************************************************************)
(* The Firestore collection.                                               *)
(***************************************************************************)
\* A faulty query: records that are FAILED are filtered out.
QueryByHashSkipsFailed(fileHash) ==
    LET ids == { d \in DOMAIN ledger : /\ ledger[d].fileHash = fileHash
                                       /\ ledger[d].status # "FAILED" }
    IN  IF ids = {} THEN {} ELSE { CHOOSE d \in ids : \A x \in ids : d <= x }

\* Collection.Where("fileHash", "==", fileHash).Limit(1).Documents().GetAll()
QueryByHash(fileHash) ==
    LET ids == { d \in DOMAIN ledger : ledger[d].fileHash = fileHash }
    IN  IF ids = {} THEN {} ELSE { CHOOSE d \in ids : \A x \in ids : d <= x }

\* A faulty isDuplicate: len(docs) > 1 on the unlimited query, which misses
\* a fingerprint recorded once.
isDuplicateOffByOne(fileHash) ==
    Cardinality({ d \in DOMAIN ledger : ledger[d].fileHash = fileHash }) > 1

\* A faulty isDuplicate: len(docs) > 1 on the query limited to one document,
\* which never holds.
isDuplicateNever(fileHash) == Cardinality(QueryByHash(fileHash)) > 1

\* A faulty isDuplicate: a match that is FAILED does not count, so that the
\* content can be processed again.
isDuplicateLiveOnly(fileHash) ==
    \E d \in QueryByHash(fileHash) : ledger[d].status # "FAILED"

\* isDuplicate: len(docs) > 0
isDuplicate(fileHash) == QueryByHash(fileHash) # {}

\* A faulty createInitialDocument: the record is born with the next status.
NewDocumentSplitting(fileHash, filename, now) ==
    [ fileHash         |-> fileHash,
      originalFilename |-> filename,
      status           |-> "SPLITTING",
      errorDetails     |-> Nil,
      pageCount        |-> 0,
      createdAt        |-> now ]

\* models.Document as createInitialDocument fills it; a field left at its
\* zero value is omitted (omitempty).
NewDocument(fileHash, filename, now) ==
    [ fileHash         |-> fileHash,
      originalFilename |-> filename,
      status           |-> "VALIDATING",
      errorDetails     |-> Nil,
      pageCount        |-> 0,
      createdAt        |-> now ]

\* A faulty update: the pageCount path is left out.
UpdateSplittingDocStatusOnly(doc, pageCount) == [doc EXCEPT !.status = "SPLITTING"]

\* docRef.Update with the status and pageCount paths (optimizeAndPrepare).
UpdateSplittingDoc(doc, pageCount) ==
    [doc EXCEPT !.status = "SPLITTING", !.pageCount = pageCount]

\* A faulty updateStatus: the update carries errorDetails but not the status.
updateStatusDropsStatus(doc, status, errDetails) ==
    [doc EXCEPT !.errorDetails = IF errDetails # Nil THEN errDetails ELSE @]

\* A faulty updateStatus: the update carries the status but no errorDetails.
updateStatusDropsDetails(doc, status, errDetails) == [doc EXCEPT !.status = status]

\* A faulty updateStatus: docRef.Set with a document of the two fields, which
\* replaces the record.
updateStatusOverwrites(doc, status, errDetails) ==
    [ fileHash         |-> <<>>,
      originalFilename |-> "",
      status           |-> status,
      errorDetails     |-> errDetails,
      pageCount        |-> 0,
      createdAt        |-> 0 ]

\* updateStatus: the status path, and errorDetails only when not empty.
updateStatus(doc, status, errDetails) ==
    [doc EXCEPT !.status = status,
                !.errorDetails = IF errDetails # Nil THEN errDetails ELSE @]

\* A faulty handleError: when the update to FAILED fails, its error is
\* returned in place of the processing error.
handleErrorReturnsUpdateError(r, message, originalErr, budget) ==
    LET fullError == <<message>> \o originalErr
        d == run[r].docRef
    IN  \E updOk \in IoOutcomes(r, budget) :
           /\ ledger' = IF updOk
                        THEN [ledger EXCEPT ![d].status = "FAILED",
                                            ![d].errorDetails = fullError]
                        ELSE ledger
           /\ run' = [run EXCEPT ![r] =
                         [@ EXCEPT !.pc = "done", !.tempDir = 0,
                                   !.err = IF updOk THEN fullError
                                           ELSE <<"firestore: update failed">>,
                                   !.upd = [doc |-> d, status |-> "FAILED",
                                            errorDetails |-> fullError,
                                            ok |-> updOk]]]
           /\ tempDirs' = tempDirs \ {run[r].tempDir}
           /\ faults' = budget - IoCost(r, updOk)

\* A faulty handleError: the record to mark is looked up by the fingerprint
\* of the file, and the first match is updated.
handleErrorMarksFirstMatch(r, message, originalErr, budget) ==
    LET fullError == <<message>> \o originalErr
        ids == { x \in DOMAIN ledger : ledger[x].fileHash = run[r].fileHash }
        d == CHOOSE x \in ids : \A y \in ids : x <= y
    IN  \E updOk \in IoOutcomes(r, budget) :
           /\ ledger' = IF updOk
                        THEN [ledger EXCEPT ![d].status = "FAILED",
                                            ![d].errorDetails = fullError]
                        ELSE ledger
           /\ run' = [run EXCEPT ![r] =
                         [@ EXCEPT !.pc = "done", !.tempDir = 0,
                                   !.err = fullError,
                                   !.upd = [doc |-> d, status |-> "FAILED",
                                            errorDetails |-> fullError,
                                            ok |-> updOk]]]
           /\ tempDirs' = tempDirs \ {run[r].tempDir}
           /\ faults' = budget - IoCost(r, updOk)

\* A faulty handleError: the update to FAILED is issued on the context of
\* the errgroup.
handleErrorOnGroupCtx(r, message, originalErr, budget) ==
    LET fullError == <<message>> \o originalErr
        d == run[r].docRef
        outcomes == IF run[r].cancelled \/ run[r].gcancel THEN {FALSE}
                    ELSE IF budget > 0 THEN BOOLEAN ELSE {TRUE}
    IN  \E updOk \in outcomes :
           /\ ledger' = IF updOk
                        THEN [ledger EXCEPT ![d].status = "FAILED",
                                            ![d].errorDetails = fullError]
                        ELSE ledger
           /\ run' = [run EXCEPT ![r] =
                         [@ EXCEPT !.pc = "done", !.tempDir = 0,
                                   !.err = fullError,
                                   !.upd = [doc |-> d, status |-> "FAILED",
                                            errorDetails |-> fullError,
                                            ok |-> updOk]]]
           /\ tempDirs' = tempDirs \ {run[r].tempDir}
           /\ faults' = budget - (IF ~updOk /\ ~run[r].cancelled THEN 1 ELSE 0)

(***************************************************************************)
(* handleError: log, try to mark the record FAILED on the caller's         *)
(* context, and return the error whatever the update did.                  *)
(***************************************************************************)
handleError(r, message, originalErr, budget) ==
    LET fullError == FullError(message, originalErr)
        d == run[r].docRef
    IN  \E updOk \in IoOutcomes(r, budget) :
           /\ ledger' = IF updOk
                        THEN [ledger EXCEPT ![d] = updateStatus(@, "FAILED", fullError)]
                        ELSE ledger
           /\ run' = [run EXCEPT ![r] =
                         [Done(@, fullError) EXCEPT
                             !.upd = [doc |-> d, status |-> "FAILED",
                                      errorDetails |-> fullError, ok |-> updOk]]]
           /\ tempDirs' = tempDirs \ {run[r].tempDir}
           /\ faults' = budget - IoCost(r, updOk)

\* Process returns err without touching the ledger.
ReturnEarly(r, err) ==
    /\ run' = [run EXCEPT ![r] = Done(@, err)]
    /\ tempDirs' = tempDirs \ {run[r].tempDir}

(***************************************************************************)
(* Process, lines 87-109: the invocation creates its directory, streams    *)
(* the triggering object into it and hashes the file. Nothing shared is    *)
(* read or written before the dedup query, so these steps are one action.  *)
(* Invocations are numbered in the order in which they start.              *)
(***************************************************************************)
Start(r) ==
    /\ run[r].pc = "idle"
    /\ \A q \in Runs : q < r => run[q].pc # "idle"
    /\ overlap \/ \A q \in Runs : q # r => run[q].pc \in {"idle", "done"}
    /\ \E e \in Events :
          \/ /\ run' = [run EXCEPT ![r].pc = "dedup", ![r].e = e,
                                   ![r].tempDir = MkdirTemp,
                                   ![r].fileHash = calculateFileHash(e.bytes),
                                   ![r].after = Returned]
             /\ tempDirs' = tempDirs \cup {MkdirTemp}
             /\ UNCHANGED faults
          \/ /\ faults > 0
             /\ faults' = faults - 1
             /\ \E err \in { <<"failed to create temp dir">>,
                             <<"failed to get GCS object reader">>,
                             <<"failed to calculate file hash">> } :
                   run' = [run EXCEPT ![r].pc = "done", ![r].e = e,
                                      ![r].err = err, ![r].after = Returned]
             /\ UNCHANGED tempDirs
    /\ UNCHANGED <<task, ledger, pageStore, executions, clock, overlap, stageVars>>

\* The caller's context is cancelled (the function's deadline, a shutdown).
CancelCtx(r) ==
    /\ run[r].pc \notin {"idle", "done"}
    /\ ~run[r].cancelled
    /\ faults > 0
    /\ faults' = faults - 1
    /\ run' = [run EXCEPT ![r].cancelled = TRUE]
    /\ UNCHANGED <<task, ledger, pageStore, executions, tempDirs, clock, overlap, stageVars>>

\* Process, lines 111-119: the dedup query and the clean exit on a match.
CheckDuplicate(r) ==
    /\ run[r].pc = "dedup"
    /\ \E ok \in IoOutcomes(r, faults) :
          /\ faults' = faults - IoCost(r, ok)
          /\ IF ~ok
             THEN ReturnEarly(r, <<"failed to query for duplicates">>)
             ELSE IF isDuplicate(run[r].fileHash)
             THEN ReturnEarly(r, Nil)
             ELSE /\ run' = [run EXCEPT ![r].pc = "create"]
                  /\ UNCHANGED tempDirs
    /\ UNCHANGED <<task, ledger, pageStore, executions, clock, overlap, stageVars>>

\* Process, lines 121-127, and createInitialDocument: Collection.Add gives
\* the record a fresh ID.
CreateInitialDocument(r) ==
    /\ run[r].pc = "create"
    /\ \E ok \in IoOutcomes(r, faults) :
          /\ faults' = faults - IoCost(r, ok)
          /\ IF ok
             THEN /\ ledger' = Append(ledger,
                          NewDocument(run[r].fileHash, run[r].e.name, clock))
                  /\ clock' = clock + 1
                  /\ run' = [run EXCEPT ![r].pc = "optimize",
                                        ![r].docRef = Len(ledger) + 1,
                                        ![r].created = TRUE]
                  /\ UNCHANGED tempDirs
             ELSE /\ ReturnEarly(r, <<"failed to create master document">>)
                  /\ UNCHANGED <<ledger, clock>>
    /\ UNCHANGED <<task, pageStore, executions, overlap, stageVars>>

\* Process, lines 129-134, and optimizeAndPrepare: optimizePDF with relaxed
\* validation, api.PageCountFile, api.SplitFile (all three on local files),
\* then the update that persists the page count with status SPLITTING. The
\* first step that fails ends the run through handleError.
optimizeAndPrepare(r) ==
    /\ run[r].pc = "optimize"
    /\ \/ /\ Corrupt(run[r].e.bytes)
          /\ handleError(r, "failed to validate/optimize PDF",
                         <<"pdfcpu: validation error">>, faults)
       \/ /\ ~Corrupt(run[r].e.bytes)
          /\ faults > 0
          /\ \E message \in {"failed to get page count", "failed to split PDF"} :
                handleError(r, message, <<"pdfcpu: file error">>, faults - 1)
       \/ /\ ~Corrupt(run[r].e.bytes)
          /\ \E ok \in IoOutcomes(r, faults) :
                IF ok
                THEN /\ ledger' = [ledger EXCEPT ![run[r].docRef] =
                             UpdateSplittingDoc(@, PagesOf(run[r].e.bytes))]
                     /\ run' = [run EXCEPT ![r].pc = "upload",
                                    ![r].pageCount = PagesOf(run[r].e.bytes)]
                     /\ UNCHANGED <<tempDirs, faults>>
                ELSE handleError(r, "failed to update status to SPLITTING",
                                 <<"firestore: update failed">>,
                                 faults - IoCost(r, ok))
    /\ UNCHANGED <<task, pageStore, executions, clock, overlap, stageVars>>

(***************************************************************************)
(* The Bounded Upload Engine: uploadSplitPages and uploadFile.             *)
(***************************************************************************)
\* The decimal digits of n, most significant first.
RECURSIVE Digits(_)
Digits(n) == IF n < 10 THEN <<n>> ELSE Append(Digits(n \div 10), n % 10)

\* %d: the digits of n as they are.
Unpadded(n) == Digits(n)

\* %05d: the digits of n, with zeros in front up to a width of 5.
Pad5(n) ==
    LET d == Digits(n)
    IN  IF Len(d) >= 5 THEN d ELSE [i \in 1 .. (5 - Len(d)) |-> 0] \o d

\* A faulty loop: every closure sees the key of the first page.
gcsDestObjectShared(doc, pageNumber) == <<doc, Pad5(1)>>

\* fmt.Sprintf("%s/%05d.pdf", docRef.ID, pageNumber): the document, then the
\* digits of the file's base name.
gcsDestObject(doc, pageNumber) == <<doc, Pad5(pageNumber)>>

\* A writer without precondition, finalized: the object holds the new data.
StorePut(store, name, data) ==
    { o \in store : o.name # name } \cup { [name |-> name, data |-> data] }

\* A group made on context.Background(): the caller's cancellation does not
\* reach the tasks.
GroupCancelledIgnoresCaller(r) == run[r].gcancel

\* gctx of errgroup.WithContext(ctx): done when the caller's context is, or
\* once a task has returned an error.
GroupCancelled(r) == run[r].cancelled \/ run[r].gcancel

\* A faulty group: a goroutine that returned keeps its slot.
ActiveNeverReleased(r) == { p \in Pages : task[r][p].st # "pending" }

\* The goroutines of the group that hold a slot of the semaphore.
Active(r) == { p \in Pages : task[r][p].st \in {"attempt", "wait"} }

\* The errors one attempt can return for a reason other than cancellation:
\* the copy fails, or the finalize does. (A local file that cannot be opened
\* takes the path of a failed copy.)
AttemptErrors ==
    { <<"io.Copy to GCS failed">>,
      <<"failed to close GCS writer (finalize upload)">> }

\* The error of an attempt whose context is done.
AbortedError == <<"io.Copy to GCS failed">> \o ErrCanceled

\* A faulty attempt: the error of gcsWriter.Close() is discarded.
AttemptResultIgnoresClose(copyOk, closeOk) ==
    IF ~copyOk THEN <<"io.Copy to GCS failed">> ELSE Nil

\* The closure of uploadFile, lines 296-320: the error of io.Copy if the
\* copy failed (the writer is then closed and the error of Close dropped),
\* else the error of gcsWriter.Close(), else nil.
AttemptResult(copyOk, closeOk) ==
    IF ~copyOk THEN <<"io.Copy to GCS failed">>
    ELSE IF ~closeOk THEN <<"failed to close GCS writer (finalize upload)">>
    ELSE Nil

\* A faulty backoff: one second more after each wait.
NextBackoffLinear(backoff) == backoff + InitialBackoff

\* backoff *= 2
NextBackoff(backoff) == backoff * 2

\* What a failing attempt takes from the budget: the first failure of a page
\* is a fault, the later failures of that page belong to it.
AttemptCost(t) == IF t.i = 0 THEN 1 ELSE 0

\* A faulty group: the error a task returns is dropped.
EgTaskReturnedDropsError(rn, err) == rn

\* A plain errgroup.Group: the first error is kept, nothing is cancelled.
EgTaskReturnedNoCancel(rn, err) ==
    IF err # Nil /\ rn.gerr = Nil THEN [rn EXCEPT !.gerr = err] ELSE rn

\* A faulty group: every error replaces the one kept.
EgTaskReturnedKeepsLast(rn, err) ==
    IF err # Nil THEN [rn EXCEPT !.gerr = err, !.gcancel = TRUE] ELSE rn

\* errgroup's goroutine, after f() returned err: the first non-nil error is
\* kept and cancels the group's context.
EgTaskReturned(rn, err) ==
    IF err # Nil /\ rn.gerr = Nil
    THEN [rn EXCEPT !.gerr = err, !.gcancel = TRUE]
    ELSE rn

\* A faulty closure: the error of uploadFile is logged and nil returned.
PageErrorSwallowed(p, err) == Nil

\* The closure of uploadSplitPages, lines 209-214.
PageError(p, err) == IF err = Nil THEN Nil ELSE <<"page", ToString(p)>> \o err

\* uploadFile returns err for page p, and the goroutine ends.
TaskReturns(t, err) == [t EXCEPT !.st = "done", !.res = err]

\* An attempt whose writer is made on context.Background(): it is not
\* aborted and finishes.
AttemptDrained(t) == TaskReturns(t, Nil)

\* A faulty closure: it returns ctx.Err() without calling uploadFile when
\* the context is done.
ReturnsBeforeAttempt(t) == TaskReturns([t EXCEPT !.attempts = 0], ErrCanceled)

\* An attempt made on a context that is done: the writer fails without
\* having created the object, and the select that follows finds ctx.Done()
\* ready, so uploadFile returns ctx.Err() without waiting.
AbortedAttempt(t) == TaskReturns([t EXCEPT !.lastErr = AbortedError], ErrCanceled)

\* A group without SetLimit: eg.Go never blocks.
SlotFreeUnlimited(r) == TRUE

\* eg.Go blocks while UploadLimit goroutines are active.
SlotFree(r) == Cardinality(Active(r)) < UploadLimit

\* uploadSplitPages, lines 204-215: one turn of the loop. eg.Go takes a slot
\* and starts the goroutine, which begins its first attempt (lines 295-305).
Go(r) ==
    /\ run[r].pc = "upload"
    /\ run[r].next <= run[r].pageCount
    /\ SlotFree(r)
    /\ LET p == run[r].next
           t == [task[r][p] EXCEPT !.attempts = @ + 1]
       IN  IF GroupCancelled(r)
           THEN /\ task' = [task EXCEPT ![r][p] =
                               AbortedAttempt([t EXCEPT !.late = TRUE])]
                /\ run' = [run EXCEPT ![r] =
                              [EgTaskReturned(@, PageError(p, ErrCanceled))
                                 EXCEPT !.next = p + 1]]
           ELSE /\ task' = [task EXCEPT ![r][p] = [t EXCEPT !.st = "attempt"]]
                /\ run' = [run EXCEPT ![r].next = p + 1]
    /\ UNCHANGED <<ledger, pageStore, executions, tempDirs, clock, faults, overlap, stageVars>>

\* uploadFile, lines 295-338: the attempt in flight ends. The copy and the
\* finalize each succeed or fail (a failure is a fault); the service has the
\* object once Close succeeded. When the closure returns nil uploadFile
\* returns nil; when it returns an error the backoff wait begins; or the
\* context the attempt derives from was cancelled: the attempt is aborted
\* and uploadFile returns ctx.Err().
FinishAttempt(r, p) ==
    /\ task[r][p].st = "attempt"
    /\ \/ /\ ~GroupCancelled(r)
          /\ \E copyOk \in BOOLEAN, closeOk \in BOOLEAN :
                LET err == AttemptResult(copyOk, closeOk)
                    cost == IF copyOk /\ closeOk THEN 0
                            ELSE AttemptCost(task[r][p])
                IN  /\ faults >= cost
                    /\ faults' = faults - cost
                    /\ pageStore' =
                          IF copyOk /\ closeOk
                          THEN StorePut(pageStore,
                                        gcsDestObject(run[r].docRef, p),
                                        <<run[r].e.bytes, p>>)
                          ELSE pageStore
                    /\ task' = [task EXCEPT ![r][p] =
                                   IF err = Nil THEN TaskReturns(@, Nil)
                                   ELSE [@ EXCEPT !.st = "wait", !.lastErr = err]]
          /\ UNCHANGED run
       \/ /\ GroupCancelled(r)
          /\ task' = [task EXCEPT ![r][p] = AbortedAttempt(@)]
          /\ run' = [run EXCEPT ![r] = EgTaskReturned(@, PageError(p, ErrCanceled))]
          /\ UNCHANGED <<pageStore, faults>>
    /\ UNCHANGED <<ledger, executions, tempDirs, clock, overlap, stageVars>>

\* uploadFile, lines 332-341: time.After(backoff) fires. The backoff doubles
\* and the loop goes on: to the next attempt, or past the last one to the
\* error that wraps lastErr.
BackoffElapsed(r, p) ==
    /\ task[r][p].st = "wait"
    /\ ~GroupCancelled(r)
    /\ LET t == [task[r][p] EXCEPT !.i = @ + 1, !.backoff = NextBackoff(@)]
       IN  IF t.i < maxRetries
           THEN /\ task' = [task EXCEPT ![r][p] =
                               [t EXCEPT !.st = "attempt", !.attempts = @ + 1]]
                /\ UNCHANGED run
           ELSE LET err == <<"upload failed after all retries">> \o t.lastErr
                IN  /\ task' = [task EXCEPT ![r][p] = TaskReturns(t, err)]
                    /\ run' = [run EXCEPT ![r] = EgTaskReturned(@, PageError(p, err))]
    /\ UNCHANGED <<ledger, pageStore, executions, tempDirs, clock, faults, overlap, stageVars>>

\* A faulty wait: on ctx.Done() the error of the last attempt is returned.
BackoffCancelledWraps(r, p) ==
    /\ task[r][p].st = "wait"
    /\ GroupCancelled(r)
    /\ LET err == <<"upload failed after all retries">> \o task[r][p].lastErr
       IN  /\ task' = [task EXCEPT ![r][p] = TaskReturns(@, err)]
           /\ run' = [run EXCEPT ![r] = EgTaskReturned(@, PageError(p, err))]
    /\ UNCHANGED <<ledger, pageStore, executions, tempDirs, clock, faults, overlap, stageVars>>

\* uploadFile, lines 335-337: ctx.Done() during the backoff wait.
BackoffCancelled(r, p) ==
    /\ task[r][p].st = "wait"
    /\ GroupCancelled(r)
    /\ task' = [task EXCEPT ![r][p] = TaskReturns(@, ErrCanceled)]
    /\ run' = [run EXCEPT ![r] = EgTaskReturned(@, PageError(p, ErrCanceled))]
    /\ UNCHANGED <<ledger, pageStore, executions, tempDirs, clock, faults, overlap, stageVars>>

\* An engine that returns when the loop ends, without eg.Wait.
AllLaunched(r) == run[r].next > run[r].pageCount

\* eg.Wait returns once every goroutine has returned.
AllReturned(r) ==
    /\ run[r].next > run[r].pageCount
    /\ \A p \in 1 .. run[r].pageCount : task[r][p].st = "done"

\* uploadSplitPages, lines 216-220: eg.Wait and what follows it.
EgWait(r) ==
    /\ run[r].pc = "upload"
    /\ AllReturned(r)
    /\ IF run[r].gerr = Nil
       THEN /\ run' = [run EXCEPT ![r].pc = "trigger"]
            /\ UNCHANGED <<ledger, tempDirs, faults>>
       ELSE handleError(r, "one or more pages failed to upload",
                        run[r].gerr, faults)
    /\ UNCHANGED <<task, pageStore, executions, clock, overlap, stageVars>>

\* A faulty payload: the page count is left at its zero value.
WorkflowPayloadZeroCount(doc, pageCount) == [documentId |-> doc, pageCount |-> 0]

\* The argument of the execution: {"documentId": ..., "pageCount": ...}.
WorkflowPayload(doc, pageCount) == [documentId |-> doc, pageCount |-> pageCount]

\* triggerWorkflow, lines 223-244, and the return of Process.
TriggerWorkflow(r) ==
    /\ run[r].pc = "trigger"
    /\ \E ok \in IoOutcomes(r, faults) :
          IF ok
          THEN /\ executions' = Append(executions,
                       WorkflowPayload(run[r].docRef, run[r].pageCount))
               /\ ReturnEarly(r, Nil)
               /\ UNCHANGED <<ledger, faults>>
          ELSE /\ handleError(r, "failed to trigger workflow execution",
                              <<"CreateExecution failed">>,
                              faults - IoCost(r, ok))
               /\ UNCHANGED executions
    /\ UNCHANGED <<task, pageStore, clock, overlap, stageVars>>

(***************************************************************************)
(* The later stages and the writer they share.                             *)
(***************************************************************************)
\* The workflow's HTTP calls in progress.
Calls == {1, 2}

\* What the generative model may answer: a replayed call need not get the
\* same text again.
Texts == {"x", "y"}

\* The pages of the document the later stages work on.
StagePages == {2, 10}

\* The section lists the model may answer with.
SectionLists ==
    { << [section |-> "intro", content |-> "x"] >>,
      << [section |-> "intro", content |-> "y"],
         [section |-> "body",  content |-> "x"] >> }

\* fmt.Sprintf("%s/%05d.md", req.DocumentID, req.PageNumber)
PageObjectName(doc, page) == [doc |-> doc, base |-> Pad5(page), ext |-> "md"]

\* fmt.Sprintf("%s/master.md", req.DocumentID)
MasterObjectName(doc) == [doc |-> doc, base |-> "master", ext |-> "md"]

\* fmt.Sprintf("%s/%s.md", req.DocumentID, sanitizedTitle)
SectionObjectName(doc, title) == [doc |-> doc, base |-> title, ext |-> "md"]

\* The order of strings.Compare on two names of equal document and
\* extension: the lexical order of their bases, digit by digit.
RECURSIVE LexLess(_, _)
LexLess(a, b) ==
    IF a = <<>> THEN b # <<>>
    ELSE IF b = <<>> THEN FALSE
    ELSE IF Head(a) # Head(b) THEN Head(a) < Head(b)
    ELSE LexLess(Tail(a), Tail(b))

EmptyBuckets ==
    [ translated |-> <<>>, aggregated |-> <<>>, cleaned |-> <<>>,
      sections |-> <<>> ]

Exists(bucket, name) == name \in DOMAIN objects[bucket]

\* The object name gets data (created or replaced).
Stored(bucket, name, data) ==
    [objects EXCEPT ![bucket] =
        [n \in DOMAIN @ \cup {name} |-> IF n = name THEN data ELSE @[n]]]

IdleCall ==
    [ pc |-> "idle", stage |-> "", bucket |-> "", name |-> "", content |-> "",
      precond |-> "none", saveErr |-> Nil, sections |-> <<>>, i |-> 0,
      savedCount |-> 0, names |-> <<>>, buf |-> <<>>, aggErr |-> Nil,
      broken |-> FALSE, status |-> "", err |-> Nil ]

\* The handler returns an error to the workflow.
Fails(cl, err) == [cl EXCEPT !.pc = "done", !.status = "", !.err = err]

\* The handler returns its response with status "success".
Succeeds(cl) == [cl EXCEPT !.pc = "done", !.status = "success", !.err = Nil]

\* The handler calls gcp.SaveToGCSAtomically(ctx, bucket, name, content):
\* a writer with the precondition DoesNotExist is made.
Saves(cl, bucket, name, content) ==
    [cl EXCEPT !.pc = "copy", !.bucket = bucket, !.name = name,
               !.content = content, !.precond = "none", !.saveErr = Nil]

\* A writer made without the precondition: the service always creates or
\* replaces the object.
NoPrecondition(bucket, name) == TRUE

\* storage.Conditions{DoesNotExist: true}: the service creates the object
\* only if none has the name.
DoesNotExist(bucket, name) == ~Exists(bucket, name)

\* SectionSplitterFunction.Process, lines 111-126: the section the loop is
\* at is saved under its sanitized title.
SavesSection(cl) ==
    Saves(cl, "sections",
          SectionObjectName("d", cl.sections[cl.i].section),
          cl.sections[cl.i].content)

\* A faulty SaveToGCSAtomically: the error of the copy or of Close is logged
\* and nil returned.
AfterSaveSwallowsError(cl, err) ==
    LET c1 == [cl EXCEPT !.saveErr = Nil]
    IN  IF c1.stage = "sections"
        THEN LET c2 == [c1 EXCEPT !.savedCount = @ + 1, !.i = @ + 1]
             IN  IF c2.i <= Len(c2.sections) THEN SavesSection(c2)
                 ELSE Succeeds(c2)
        ELSE Succeeds(c1)

\* A faulty section splitter: the error of a save is returned.
AfterSaveFailsOnError(cl, err) ==
    LET c1 == [cl EXCEPT !.saveErr = err]
    IN  IF err # Nil THEN Fails(c1, err)
        ELSE IF c1.stage = "sections"
        THEN LET c2 == [c1 EXCEPT !.savedCount = @ + 1, !.i = @ + 1]
             IN  IF c2.i <= Len(c2.sections) THEN SavesSection(c2)
                 ELSE Succeeds(c2)
        ELSE Succeeds(c1)

\* What the handler does once SaveToGCSAtomically has returned err.
\* Translator (lines 120-131) and cleaner (lines 110-122) return the error
\* or the success response. The section splitter (lines 120-133) counts the
\* section when err is nil, goes on with the next section in either case,
\* and returns success after the last.
AfterSave(cl, err) ==
    LET c1 == [cl EXCEPT !.saveErr = err]
    IN  IF c1.stage = "sections"
        THEN LET c2 == [c1 EXCEPT !.savedCount = IF err = Nil THEN @ + 1 ELSE @,
                                  !.i = @ + 1]
             IN  IF c2.i <= Len(c2.sections) THEN SavesSection(c2)
                 ELSE Succeeds(c2)
        ELSE IF err = Nil THEN Succeeds(c1) ELSE Fails(c1, err)

\* TranslatorFunction.Process, lines 72-124: the model answers (or the call
\* fails, or the answer is a refusal) and the page's markdown is saved.
TranslatorProcess(c) ==
    /\ call[c].pc = "idle"
    /\ \/ \E err \in { <<"failed to generate content from gemini">>,
                       <<"gemini response indicates refusal">> } :
             call' = [call EXCEPT ![c] = Fails([@ EXCEPT !.stage = "translator"], err)]
       \/ \E page \in StagePages, text \in Texts :
             call' = [call EXCEPT ![c] =
                         Saves([@ EXCEPT !.stage = "translator"], "translated",
                               PageObjectName("d", page), text)]
    /\ UNCHANGED <<objects, ingestVars>>

\* CleanerFunction.Process, lines 65-113.
CleanerProcess(c) ==
    /\ call[c].pc = "idle"
    /\ \/ \E err \in { <<"failed to generate cleaned content from gemini">>,
                       <<"gemini response indicates refusal">> } :
             call' = [call EXCEPT ![c] = Fails([@ EXCEPT !.stage = "cleaner"], err)]
       \/ \E text \in Texts :
             call' = [call EXCEPT ![c] =
                         Saves([@ EXCEPT !.stage = "cleaner"], "cleaned",
                               MasterObjectName("d"), text)]
    /\ UNCHANGED <<objects, ingestVars>>

\* SectionSplitterFunction.Process, lines 71-120: the model's answer is
\* parsed into sections; with none there is nothing to save.
SectionSplitterProcess(c) ==
    /\ call[c].pc = "idle"
    /\ \/ \E err \in { <<"failed to generate sections from gemini">>,
                       <<"gemini returned empty response">>,
                       <<"failed to parse JSON from model">> } :
             call' = [call EXCEPT ![c] = Fails([@ EXCEPT !.stage = "sections"], err)]
       \/ call' = [call EXCEPT ![c] = Succeeds([@ EXCEPT !.stage = "sections"])]
       \/ \E list \in SectionLists :
             call' = [call EXCEPT ![c] =
                         SavesSection([@ EXCEPT !.stage = "sections",
                                                !.sections = list, !.i = 1])]
    /\ UNCHANGED <<objects, ingestVars>>

\* SaveToGCSAtomically, lines 188-196: io.Copy into the writer. The data is
\* taken; or the copy fails, and the error is the precondition's 412 (an
\* object has the name: logged, nil returned) or another one (returned).
SaveCopy(c) ==
    /\ call[c].pc = "copy"
    /\ \/ call' = [call EXCEPT ![c].pc = "close"]
       \/ /\ ~DoesNotExist(call[c].bucket, call[c].name)
          /\ call' = [call EXCEPT ![c] = AfterSave([@ EXCEPT !.precond = "copy"], Nil)]
       \/ call' = [call EXCEPT ![c] = AfterSave(@, <<"failed to write to GCS">>)]
    /\ UNCHANGED <<objects, ingestVars>>

\* SaveToGCSAtomically, lines 198-203: writer.Close() finalizes the upload.
\* The service creates the object if the precondition holds; if it does not,
\* Close returns the 412, and, like any other error of Close, it is returned
\* as "failed to finalize GCS write".
SaveClose(c) ==
    /\ call[c].pc = "close"
    /\ \/ /\ DoesNotExist(call[c].bucket, call[c].name)
          /\ objects' = Stored(call[c].bucket, call[c].name, call[c].content)
          /\ call' = [call EXCEPT ![c] = AfterSave(@, Nil)]
       \/ /\ ~DoesNotExist(call[c].bucket, call[c].name)
          /\ call' = [call EXCEPT ![c] =
                         AfterSave([@ EXCEPT !.precond = "close"],
                                   <<"failed to finalize GCS write", "412">>)]
          /\ UNCHANGED objects
       \/ /\ call' = [call EXCEPT ![c] =
                         AfterSave(@, <<"failed to finalize GCS write">>)]
          /\ UNCHANGED objects
    /\ UNCHANGED ingestVars

\* The response has gone to the workflow, which may call again (a retry, a
\* replayed step).
Respond(c) ==
    /\ call[c].pc = "done"
    /\ call' = [call EXCEPT ![c] = IdleCall]
    /\ UNCHANGED <<objects, ingestVars>>

(***************************************************************************)
(* The specification of the ingestion stage: the invocations of Process,   *)
(* in any interleaving.                                                    *)
(***************************************************************************)
Init ==
    /\ run = [r \in Runs |-> InitRun]
    /\ task = [r \in Runs |-> [p \in Pages |-> InitTask]]
    /\ ledger = <<>>
    /\ pageStore = {}
    /\ executions = <<>>
    /\ tempDirs = {}
    /\ clock = 1
    /\ faults = MaxFaults
    /\ overlap = FALSE
    /\ objects = EmptyBuckets
    /\ call = [c \in Calls |-> IdleCall]

\* Invocations that overlap (the trigger delivers events concurrently).
InitOverlap ==
    /\ run = [r \in Runs |-> InitRun]
    /\ task = [r \in Runs |-> [p \in Pages |-> InitTask]]
    /\ ledger = <<>>
    /\ pageStore = {}
    /\ executions = <<>>
    /\ tempDirs = {}
    /\ clock = 1
    /\ faults = MaxFaults
    /\ overlap = TRUE
    /\ objects = EmptyBuckets
    /\ call = [c \in Calls |-> IdleCall]

Next ==
    \E r \in Runs :
        \/ Start(r)
        \/ CancelCtx(r)
        \/ CheckDuplicate(r)
        \/ CreateInitialDocument(r)
        \/ optimizeAndPrepare(r)
        \/ Go(r)
        \/ \E p \in Pages : FinishAttempt(r, p)
        \/ \E p \in Pages : BackoffElapsed(r, p)
        \/ \E p \in Pages : BackoffCancelled(r, p)
        \/ EgWait(r)
        \/ TriggerWorkflow(r)

Spec == Init /\ [][Next]_vars

SpecOverlap == InitOverlap /\ [][Next]_vars

(***************************************************************************)
(* The specification of the Bounded Upload Engine: one call of             *)
(* uploadSplitPages, from the state in which Process makes it (the record  *)
(* is SPLITTING with its page count), up to the return of eg.Wait. Faults  *)
(* and cancellation are injected into the upload of the file of MaxPages   *)
(* pages; the file with more pages than the concurrency limit is uploaded  *)
(* without faults.                                                         *)
(***************************************************************************)
\* The invocation the upload specification follows: the first.
UploadRun == CHOOSE r \in Runs : \A q \in Runs : r <= q

InitUpload ==
    \E e \in UploadEvents :
        /\ run = [r \in Runs |->
                    IF r = UploadRun
                    THEN [InitRun EXCEPT !.pc = "upload", !.e = e,
                                         !.fileHash = calculateFileHash(e.bytes),
                                         !.docRef = 1, !.created = TRUE,
                                         !.pageCount = PagesOf(e.bytes),
                                         !.tempDir = 1]
                    ELSE InitRun]
        /\ task = [r \in Runs |-> [p \in Pages |-> InitTask]]
        /\ ledger = << UpdateSplittingDoc(
                          NewDocument(calculateFileHash(e.bytes), e.name, 1),
                          PagesOf(e.bytes)) >>
        /\ pageStore = {}
        /\ executions = <<>>
        /\ tempDirs = {1}
        /\ clock = 2
        /\ faults = IF PagesOf(e.bytes) > MaxPages THEN 0 ELSE MaxFaults
        /\ overlap = FALSE
        /\ objects = EmptyBuckets
        /\ call = [c \in Calls |-> IdleCall]

NextUpload ==
    \/ CancelCtx(UploadRun)
    \/ Go(UploadRun)
    \/ \E p \in Pages : FinishAttempt(UploadRun, p)
    \/ \E p \in Pages : BackoffElapsed(UploadRun, p)
    \/ \E p \in Pages : BackoffCancelled(UploadRun, p)
    \/ EgWait(UploadRun)

SpecUpload == InitUpload /\ [][NextUpload]_vars

\* The engine under fair scheduling: the launcher and every goroutine that
\* can take a step takes it; an attempt in flight returns (its write context
\* expires after 50 s at the latest) and a timer that was set fires.
FairUpload ==
    /\ WF_vars(Go(UploadRun))
    /\ WF_vars(EgWait(UploadRun))
    /\ \A p \in Pages :
          /\ WF_vars(FinishAttempt(UploadRun, p))
          /\ WF_vars(BackoffElapsed(UploadRun, p))
          /\ WF_vars(BackoffCancelled(UploadRun, p))

SpecUploadFair == SpecUpload /\ FairUpload

(***************************************************************************)
(* The aggregator: AggregatorFunction.Process.                             *)
(***************************************************************************)
\* What the destination writer has been given: the bytes of a page (whole,
\* or the part copied before the copy failed) or the separator.
Chunk(text, whole) == [text |-> text, whole |-> whole]

\* []byte("\n\n---\n\n")
Separator == Chunk("\n\n---\n\n", TRUE)

\* strings.HasSuffix(attrs.Name, ".md")
HasSuffixMd(name) == name.ext = "md"

\* The objects the iterator yields for Prefix: documentID + "/".
Listed(doc) == { n \in DOMAIN objects.translated : n.doc = doc }

\* A faulty sort: the names in descending order.
RECURSIVE SortStringsDescending(_)
SortStringsDescending(names) ==
    IF names = {} THEN <<>>
    ELSE LET last == CHOOSE n \in names :
                        \A m \in names \ {n} : LexLess(m.base, n.base)
         IN  <<last>> \o SortStringsDescending(names \ {last})

\* sort.Strings: the names in ascending byte order.
RECURSIVE SortStrings(_)
SortStrings(names) ==
    IF names = {} THEN <<>>
    ELSE LET least == CHOOSE n \in names :
                         \A m \in names \ {n} : LexLess(n.base, m.base)
         IN  <<least>> \o SortStrings(names \ {least})

\* Lines 62-92: the pages of the document are listed and sorted, and the
\* writer of master.md is made (a plain NewWriter: no precondition).
AggregatorProcess(c) ==
    /\ call[c].pc = "idle"
    /\ \/ call' = [call EXCEPT ![c] =
                      Fails([@ EXCEPT !.stage = "aggregator"],
                            <<"failed to list markdown files">>)]
       \/ LET objectNames ==
                  SortStrings({ n \in Listed("d") : HasSuffixMd(n) })
          IN  call' = [call EXCEPT ![c] =
                          [@ EXCEPT !.stage = "aggregator",
                                    !.bucket = "aggregated",
                                    !.name = MasterObjectName("d"),
                                    !.names = objectNames, !.i = 1,
                                    !.pc = IF objectNames = <<>>
                                           THEN "aggclose" ELSE "append"]]
    /\ UNCHANGED <<objects, ingestVars>>

\* The loop goes on to the next name, or ends.
NextName(cl) ==
    [cl EXCEPT !.i = @ + 1,
               !.pc = IF cl.i + 1 > Len(cl.names) THEN "aggclose" ELSE "append"]

\* The loop is left with aggregationErr set.
Break(cl, err) == [cl EXCEPT !.aggErr = err, !.pc = "aggclose"]

\* Lines 94-115: one turn of the loop. The page is read and copied and the
\* separator written; or the reader cannot be made; or the copy fails, with
\* none or a part of the page already written, because the source or the
\* destination failed; or the separator cannot be written.
AggAppend(c) ==
    /\ call[c].pc = "append"
    /\ LET objName == call[c].names[call[c].i]
           data == objects.translated[objName]
       IN  \/ call' = [call EXCEPT ![c] =
                          NextName([@ EXCEPT !.buf = @ \o <<Chunk(data, TRUE), Separator>>])]
           \/ call' = [call EXCEPT ![c] = Break(@, <<"failed to read", objName.base>>)]
           \/ \E some \in BOOLEAN, destFailed \in BOOLEAN :
                 call' = [call EXCEPT ![c] =
                     Break([@ EXCEPT !.buf = IF some THEN Append(@, Chunk(data, FALSE))
                                                     ELSE @,
                                     !.broken = destFailed],
                           <<"failed to copy content from", objName.base>>)]
           \/ call' = [call EXCEPT ![c] =
                          Break([@ EXCEPT !.buf = Append(@, Chunk(data, TRUE)),
                                          !.broken = TRUE],
                                <<"failed to write separator">>)]
    /\ UNCHANGED <<objects, ingestVars>>

\* A faulty end of Process: after a failed loop the error is returned and
\* the writer is left unclosed.
AggCloseSkippedOnError(c) ==
    /\ call[c].pc = "aggclose"
    /\ IF call[c].aggErr # Nil
       THEN /\ call' = [call EXCEPT ![c] = Fails(@, @.aggErr)]
            /\ UNCHANGED objects
       ELSE \/ /\ ~call[c].broken
               /\ objects' = Stored("aggregated", call[c].name, call[c].buf)
               /\ call' = [call EXCEPT ![c] = Succeeds(@)]
            \/ /\ call' = [call EXCEPT ![c] =
                              Fails(@, <<"failed to finalize master.md">>)]
               /\ UNCHANGED objects
    /\ UNCHANGED ingestVars

\* Lines 117-135: destWriter.Close() finalizes master.md with what was
\* written, replacing the object of that name if there is one; then the
\* error of the loop, if any, is returned. A writer whose Write failed
\* fails to close, as Close may for any other reason.
AggClose(c) ==
    /\ call[c].pc = "aggclose"
    /\ \/ /\ ~call[c].broken
          /\ objects' = Stored("aggregated", call[c].name, call[c].buf)
          /\ call' = [call EXCEPT ![c] =
                         IF @.aggErr = Nil THEN Succeeds(@) ELSE Fails(@, @.aggErr)]
       \/ /\ call' = [call EXCEPT ![c] = Fails(@, <<"failed to finalize master.md">>)]
          /\ UNCHANGED objects
    /\ UNCHANGED ingestVars

(***************************************************************************)
(* The specification of the stages that store one artifact through         *)
(* SaveToGCSAtomically: calls of the translator, the cleaner and the       *)
(* section splitter for one document, concurrent and repeated.             *)
(***************************************************************************)
IdleIngest ==
    /\ run = [r \in Runs |-> InitRun]
    /\ task = [r \in Runs |-> [p \in Pages |-> InitTask]]
    /\ ledger = <<>>
    /\ pageStore = {}
    /\ executions = <<>>
    /\ tempDirs = {}
    /\ clock = 1
    /\ faults = 0
    /\ overlap = FALSE

InitWriter ==
    /\ IdleIngest
    /\ objects = EmptyBuckets
    /\ call = [c \in Calls |-> IdleCall]

NextWriter ==
    \E c \in Calls :
        \/ TranslatorProcess(c)
        \/ CleanerProcess(c)
        \/ SectionSplitterProcess(c)
        \/ SaveCopy(c)
        \/ SaveClose(c)
        \/ Respond(c)

SpecWriter == InitWriter /\ [][NextWriter]_vars

(***************************************************************************)
(* The specification of the aggregator: the translated pages of one        *)
(* document are in their bucket, and the workflow calls the aggregator,    *)
(* possibly again and possibly twice at a time.                            *)
(***************************************************************************)
InitAggregator ==
    /\ IdleIngest
    /\ \E present \in SUBSET StagePages :
         \E text \in [present -> Texts] :
            objects = [EmptyBuckets EXCEPT !.translated =
                [n \in { PageObjectName("d", p) : p \in present } |->
                    text[CHOOSE p \in present : PageObjectName("d", p) = n]]]
    /\ call = [c \in Calls |-> IdleCall]

NextAggregator ==
    \E c \in Calls :
        \/ AggregatorProcess(c)
        \/ AggAppend(c)
        \/ AggClose(c)
        \/ Respond(c)

SpecAggregator == InitAggregator /\ [][NextAggregator]_vars

(***************************************************************************)
(* Properties of the ingestion stage (specification Spec).                 *)
(***************************************************************************)
\* The errors Process returns before the dedup query has answered: the
\* environment failed, and nothing was decided about the file.
BeforeDedupErrors ==
    { <<"failed to create temp dir">>, <<"failed to get GCS object reader">>,
      <<"failed to calculate file hash">>, <<"failed to query for duplicates">> }

\* Run b processed the content of run a, started after a had returned, a
\* recorded the fingerprint, and b got the answer of its dedup query.
Resubmitted(a, b) ==
    /\ a # b
    /\ run[a].pc = "done" /\ run[b].pc = "done"
    /\ a \in run[b].after
    /\ run[a].e.bytes = run[b].e.bytes
    /\ run[a].created
    /\ run[b].err \notin BeforeDedupErrors

RecordsWith(fileHash) == { d \in DOMAIN ledger : ledger[d].fileHash = fileHash }

\* The documents that have page artifacts made from the given bytes.
ArtifactSets(bytes) == { o.name[1] : o \in { x \in pageStore : x.data[1] = bytes } }

\* C1: when the same content is submitted twice in sequence (the first run
\* recorded the fingerprint and the second reached the answer of its dedup
\* query), the ledger holds exactly one record with that fingerprint, the
\* page artifacts made from the content all belong to that one record, and
\* the second run returns nil and creates no record.
C1_SecondSubmissionIsNoOp ==
    \A a \in Runs, b \in Runs :
        Resubmitted(a, b) =>
            /\ run[b].err = Nil
            /\ ~run[b].created
            /\ RecordsWith(run[a].fileHash) = {run[a].docRef}
            /\ ArtifactSets(run[a].e.bytes) \subseteq {run[a].docRef}

\* The first run split the file and handed it off; the second returned.
C1_Witness ==
    \E a \in Runs, b \in Runs :
        /\ Resubmitted(a, b)
        /\ run[a].err = Nil
        /\ run[b].err = Nil
        /\ ArtifactSets(run[a].e.bytes) = {run[a].docRef}
        /\ \A p \in 1 .. run[a].pageCount :
              \E o \in pageStore : o.name = gcsDestObject(run[a].docRef, p)

\* The run's record was handed to the workflow.
HandedOff(r) ==
    \E i \in DOMAIN executions : executions[i].documentId = run[r].docRef

\* C2: a run that created its record and then met a failing step returns a
\* non-nil error after attempting to update that record to FAILED with
\* non-empty errorDetails (the error it returns); when the update succeeded
\* the record is FAILED with those details. A run that created its record
\* returns nil only when no step failed: its record was handed off.
C2_FailureMarksRecordFailed ==
    \A r \in Runs :
        (run[r].pc = "done" /\ run[r].created) =>
            IF run[r].err = Nil
            THEN HandedOff(r) /\ run[r].upd = NoUpdate
            ELSE /\ run[r].upd.doc = run[r].docRef
                 /\ run[r].upd.status = "FAILED"
                 /\ run[r].upd.errorDetails # Nil
                 /\ run[r].upd.errorDetails = run[r].err
                 /\ run[r].upd.ok =>
                      /\ ledger[run[r].docRef].status = "FAILED"
                      /\ ledger[run[r].docRef].errorDetails = run[r].err
                 /\ ~HandedOff(r)

\* A corrupt file: normalization failed, and the update to FAILED succeeded.
C2_Witness ==
    \E r \in Runs :
        /\ run[r].pc = "done" /\ run[r].created
        /\ Corrupt(run[r].e.bytes)
        /\ Head(run[r].err) = "failed to validate/optimize PDF"
        /\ run[r].upd.ok
        /\ ledger[run[r].docRef].status = "FAILED"
        /\ ledger[run[r].docRef].errorDetails # Nil

\* The moves of a record's status.
StatusMoves ==
    { <<"VALIDATING", "SPLITTING">>, <<"VALIDATING", "FAILED">>,
      <<"SPLITTING", "FAILED">> }

\* C3: every record enters the ledger with status VALIDATING, no record
\* leaves the ledger, and a step changes a record's status only forward
\* (VALIDATING to SPLITTING) or into FAILED; no step changes the status of
\* a FAILED record.
C3_StatusMovesForward ==
    [][ /\ \A d \in DOMAIN ledger :
              /\ d \in DOMAIN ledger'
              /\ \/ ledger'[d].status = ledger[d].status
                 \/ <<ledger[d].status, ledger'[d].status>> \in StatusMoves
        /\ \A d \in DOMAIN ledger' \ DOMAIN ledger :
              ledger'[d].status = "VALIDATING" ]_vars

\* A record that went from VALIDATING through SPLITTING into FAILED, its run
\* over, next to a record of a later run.
C3_Witness ==
    \E d \in DOMAIN ledger, x \in DOMAIN ledger :
        /\ ledger[d].status = "FAILED"
        /\ ledger[d].pageCount > 0
        /\ x > d

\* C4: an execution exists for a document only if every page 1..pageCount of
\* the document is in the page bucket and every upload task of the run
\* returned nil, whatever the order in which they ended; a run one of whose
\* pages failed has created no execution.
C4_HandoffAfterAllPages ==
    /\ \A i \in DOMAIN executions :
          LET doc == executions[i].documentId
          IN  /\ doc \in DOMAIN ledger
              /\ \A p \in 1 .. ledger[doc].pageCount :
                    \E o \in pageStore : o.name = gcsDestObject(doc, p)
    /\ \A r \in Runs :
          /\ HandedOff(r) /\ run[r].created =>
                \A p \in 1 .. run[r].pageCount :
                    task[r][p].st = "done" /\ task[r][p].res = Nil
          /\ (run[r].created /\ \E p \in Pages : task[r][p].res # Nil) =>
                ~HandedOff(r)

\* A document of several pages was handed off after the upload of its first
\* page had to be attempted again while the second page went through at once.
C4_Witness ==
    \E r \in Runs :
        /\ run[r].created /\ HandedOff(r)
        /\ run[r].pageCount >= 2
        /\ task[r][1].attempts >= 2
        /\ task[r][2].attempts = 1

\* C5: no two executions carry the same documentId; a run that created its
\* record and returned nil has exactly one execution, whose payload is the
\* run's documentId and the pageCount stored in its ledger record; a run that
\* returned an error or found a duplicate has none.
C5_HandoffOncePerDocument ==
    /\ \A i \in DOMAIN executions, j \in DOMAIN executions :
          executions[i].documentId = executions[j].documentId => i = j
    /\ \A r \in Runs :
          run[r].pc = "done" =>
             IF run[r].created /\ run[r].err = Nil
             THEN \E i \in DOMAIN executions :
                     /\ executions[i].documentId = run[r].docRef
                     /\ executions[i].pageCount = ledger[run[r].docRef].pageCount
                     /\ ledger[run[r].docRef].pageCount = PagesOf(run[r].e.bytes)
             ELSE run[r].created => ~HandedOff(r)
    /\ Len(executions) <= Cardinality({ r \in Runs : run[r].created })

\* Two runs created a record each and both handed off, one execution each.
C5_Witness ==
    /\ Len(executions) = 2
    /\ \A r \in Runs : run[r].pc = "done" /\ run[r].created /\ run[r].err = Nil
    /\ executions[1].documentId # executions[2].documentId

(***************************************************************************)
(* Properties of the create-if-absent writer (specification SpecWriter)    *)
(* and of the aggregator (specification SpecAggregator).                   *)
(***************************************************************************)
\* The buckets whose objects are written by SaveToGCSAtomically.
SavedAtomically == {"translated", "cleaned", "sections"}

\* C6: no step of any call of SaveToGCSAtomically, however many calls are
\* repeated or run at a time and whatever they carry, removes an object or
\* changes the bytes stored at a name that has an object: the content stays
\* that of the write that created it.
C6_ExistingObjectUnchanged ==
    [][ \A b \in SavedAtomically :
           \A n \in DOMAIN objects[b] :
               /\ n \in DOMAIN objects'[b]
               /\ objects'[b][n] = objects[b][n] ]_vars

\* A call that carried other content than the object holds has returned
\* after the precondition failed, and the object holds what it held.
C6_Witness ==
    \E c \in Calls :
        /\ call[c].pc = "done"
        /\ call[c].stage = "translator"
        /\ call[c].precond # "none"
        /\ Exists(call[c].bucket, call[c].name)
        /\ objects[call[c].bucket][call[c].name] # call[c].content

\* C7: a call of SaveToGCSAtomically whose precondition failed, at the copy
\* or at Close, has returned nil.
C7_PreconditionFailureReturnsNil ==
    \A c \in Calls :
        (call[c].pc = "done" /\ call[c].precond # "none") =>
            call[c].saveErr = Nil

\* C8: no step of any stage removes or changes an artifact that is stored,
\* in any of the four buckets.
C8_StoredArtifactUnchanged ==
    [][ \A b \in DOMAIN objects :
           \A n \in DOMAIN objects[b] :
               /\ n \in DOMAIN objects'[b]
               /\ objects'[b][n] = objects[b][n] ]_vars

(***************************************************************************)
(* Properties of the upload engine (specification SpecUpload).             *)
(***************************************************************************)
\* The upload attempts in flight.
InFlight(r) == { p \in Pages : task[r][p].st = "attempt" }

\* C9: at every moment at most 10 upload tasks hold a slot, and so at most
\* 10 attempts are in flight, whatever the page count.
C9_AtMostTenInFlight ==
    \A r \in Runs :
        /\ Cardinality(Active(r)) <= 10
        /\ Cardinality(InFlight(r)) <= 10

\* A file of more than 10 pages: 10 tasks hold a slot and a page waits.
C9_Witness ==
    \E r \in Runs :
        /\ run[r].pageCount > 10
        /\ Cardinality(InFlight(r)) = 10
        /\ run[r].next <= run[r].pageCount

\* C10: after three failed attempts a fourth is made, so that a task that
\* has returned after three failures returned nil, having stored its page,
\* unless it was cancelled; and when every task returned nil the group's
\* error is nil and uploadSplitPages returns nil (Process goes on to the
\* trigger) and not through handleError.
C10_FourthAttemptSucceeds ==
    \A r \in Runs :
        /\ \A p \in Pages :
              (task[r][p].st = "done" /\ task[r][p].i = 3) =>
                  \/ /\ task[r][p].res = Nil
                     /\ task[r][p].attempts = 4
                     /\ \E o \in pageStore :
                           o.name = gcsDestObject(run[r].docRef, p)
                  \/ task[r][p].res = ErrCanceled
        /\ ( /\ run[r].pageCount > 0
              /\ AllReturned(r)
              /\ \A p \in 1 .. run[r].pageCount : task[r][p].res = Nil ) =>
              /\ run[r].gerr = Nil
              /\ run[r].pc \in {"upload", "trigger"}
              /\ run[r].err = Nil

\* A page went through on its fourth attempt and the engine reported
\* success.
C10_Witness ==
    \E r \in Runs, p \in Pages :
        /\ task[r][p].st = "done"
        /\ task[r][p].i = 3
        /\ task[r][p].attempts = 4
        /\ task[r][p].res = Nil
        /\ run[r].pc = "trigger"
        /\ run[r].pageCount >= 2

\* The error of uploadFile once every attempt has failed.
Exhausted(t) ==
    /\ t.st = "done"
    /\ t.res = <<"upload failed after all retries">> \o t.lastErr

C12_WaitAbortsOnCancel ==
    [][ \A r \in Runs, p \in Pages :
           ( /\ run[r].cancelled
             /\ task[r][p].st = "wait"
             /\ task'[r][p] # task[r][p] ) =>
               /\ task'[r][p].st = "done"
               /\ task'[r][p].res = ErrCanceled
               /\ task'[r][p].attempts = task[r][p].attempts
               /\ task'[r][p].i = task[r][p].i
               /\ task'[r][p].backoff = task[r][p].backoff ]_vars

\* The caller cancelled while a task waited after a failed attempt; the task
\* returned the cancellation, which became the group's error.
C12_Witness ==
    \E r \in Runs, p \in Pages :
        /\ run[r].cancelled
        /\ task[r][p].st = "done"
        /\ task[r][p].res = ErrCanceled
        /\ task[r][p].lastErr \in AttemptErrors
        /\ run[r].gerr = PageError(p, ErrCanceled)

\* C13: a task that exhausted its retries has cancelled the group; and while
\* the group is cancelled (by that, or by the caller) no task starts an
\* attempt that can run, no backoff elapses, no page is stored, and a task
\* that moves returns an error.
C13_CancellationReachesSiblings ==
    /\ [] \A r \in Runs :
            (\E p \in Pages : Exhausted(task[r][p])) => GroupCancelled(r)
    /\ [][ \A r \in Runs :
              GroupCancelled(r) =>
                  /\ pageStore' = pageStore
                  /\ \A p \in Pages :
                        task'[r][p] # task[r][p] =>
                            /\ task'[r][p].st = "done"
                            /\ task'[r][p].res # Nil
                            /\ task'[r][p].i = task[r][p].i ]_vars

\* One page exhausted its retries; its sibling, which was retrying, returned
\* the cancellation.
C13_Witness ==
    \E r \in Runs, p \in Pages, q \in Pages :
        /\ p # q
        /\ Exhausted(task[r][p])
        /\ task[r][q].st = "done"
        /\ task[r][q].res = ErrCanceled
        /\ task[r][q].i >= 1
        /\ ~run[r].cancelled

\* C14 as stated: the step that ends an attempt in flight while the group
\* is cancelled is not an abort by that cancellation.
C14_RunningAttemptNotAborted ==
    [][ \A r \in Runs, p \in Pages :
           ( /\ GroupCancelled(r)
             /\ task[r][p].st = "attempt"
             /\ task'[r][p] # task[r][p] ) =>
               task'[r][p].lastErr # AbortedError ]_vars

\* C14, amended: the engine does not return while an attempt is running,
\* but an attempt in flight when the group is cancelled is aborted by the
\* cancellation (its write context derives from the group's): it stores
\* nothing and its task returns the cancellation error.
C14_RunningAttemptAborted ==
    [][ \A r \in Runs :
           /\ (run[r].pc = "upload" /\ run'[r].pc # "upload") =>
                 \A p \in Pages : task[r][p].st # "attempt"
           /\ \A p \in Pages :
                 ( /\ GroupCancelled(r)
                   /\ task[r][p].st = "attempt"
                   /\ task'[r][p] # task[r][p] ) =>
                     /\ task'[r][p].st = "done"
                     /\ task'[r][p].lastErr = AbortedError
                     /\ task'[r][p].res = ErrCanceled
                     /\ pageStore' = pageStore ]_vars

\* A retry that was running when a sibling exhausted its retries was
\* aborted, and the engine returned after it.
C14_Witness ==
    \E r \in Runs, p \in Pages :
        /\ task[r][p].st = "done"
        /\ task[r][p].i >= 1
        /\ task[r][p].lastErr = AbortedError
        /\ task[r][p].res = ErrCanceled
        /\ ~run[r].cancelled
        /\ run[r].pc = "done"

\* C16: while no task has returned an error the group has none; the first
\* error a task returns becomes the group's error and no later error
\* replaces it; it is the error the engine hands to handleError.
C16_FirstErrorKept ==
    /\ [] \A r \in Runs :
            /\ run[r].gerr = Nil => \A p \in Pages : task[r][p].res = Nil
            /\ run[r].gerr # Nil =>
                  \E p \in Pages : /\ task[r][p].res # Nil
                                   /\ run[r].gerr = PageError(p, task[r][p].res)
            /\ (run[r].pc = "done" /\ run[r].created) =>
                  run[r].err = <<"one or more pages failed to upload">> \o run[r].gerr
    /\ [][ \A r \in Runs : run[r].gerr # Nil => run'[r].gerr = run[r].gerr ]_vars

\* Two pages failed; the engine returned the error of the one that failed
\* first, not the cancellation its sibling returned after it.
C16_Witness ==
    \E r \in Runs, p \in Pages, q \in Pages :
        /\ run[r].pc = "done"
        /\ task[r][p].res # Nil /\ task[r][q].res # Nil
        /\ task[r][p].res # task[r][q].res
        /\ run[r].gerr = PageError(p, task[r][p].res)
        /\ run[r].gerr # PageError(q, task[r][q].res)

(***************************************************************************)
(* Further properties of the ingestion stage (specification Spec).         *)
(***************************************************************************)
\* The page objects of a document.
ObjectsOf(store, doc) == { o \in store : o.name[1] = doc }

\* C15: once uploadSplitPages has returned (Process is at the trigger or has
\* returned), every upload task of the run has returned, and from then on
\* no task of the run moves and no page object of its document is written:
\* the FAILED update and the handoff happen with no upload running.
C15_EngineReturnsAfterAllTasks ==
    /\ [] \A r \in Runs :
            run[r].pc \in {"trigger", "done"} =>
                /\ \A p \in Pages :
                      task[r][p].st = IF p <= run[r].pageCount THEN "done"
                                      ELSE "pending"
                /\ (run[r].upd # NoUpdate \/ HandedOff(r)) => run[r].pc = "done"
    /\ [][ \A r \in Runs :
              run[r].pc \in {"trigger", "done"} =>
                  /\ task'[r] = task[r]
                  /\ run[r].docRef # 0 =>
                        ObjectsOf(pageStore', run[r].docRef)
                            = ObjectsOf(pageStore, run[r].docRef) ]_vars

\* A run of several pages returned through handleError after one page was
\* stored and another failed, all its tasks having returned.
C15_Witness ==
    \E r \in Runs :
        /\ run[r].pc = "done"
        /\ run[r].pageCount >= 2
        /\ Head(run[r].err) = "one or more pages failed to upload"
        /\ \E p \in 1 .. run[r].pageCount : task[r][p].res = Nil
        /\ \E p \in 1 .. run[r].pageCount : task[r][p].res # Nil
        /\ ObjectsOf(pageStore, run[r].docRef) # {}

\* C17: when the ledger holds a record with the run's fingerprint, the step
\* that follows the dedup query ends the run, with nil unless the query
\* failed, and changes neither ledger nor page store nor executions; the run
\* has created and updated no record and started no upload.
C17_DuplicateLeavesNoTrace ==
    /\ [] \A r \in Runs :
            (run[r].pc = "done" /\ run[r].err = Nil /\ ~run[r].created) =>
                /\ RecordsWith(run[r].fileHash) # {}
                /\ run[r].docRef = 0
                /\ run[r].upd = NoUpdate
                /\ \A p \in Pages : task[r][p] = InitTask
    /\ [][ \A r \in Runs :
              ( /\ run[r].pc = "dedup"
                /\ RecordsWith(run[r].fileHash) # {}
                /\ run'[r].pc # "dedup" ) =>
                  /\ run'[r].pc = "done"
                  /\ run'[r].err \in {Nil, <<"failed to query for duplicates">>}
                  /\ ~run'[r].created
                  /\ ledger' = ledger
                  /\ pageStore' = pageStore
                  /\ executions' = executions ]_vars

\* The content of a document that FAILED was submitted again: the run
\* returned nil and the ledger holds the one FAILED record, nothing else.
C17_Witness ==
    \E r \in Runs :
        /\ run[r].pc = "done" /\ run[r].err = Nil /\ ~run[r].created
        /\ Len(ledger) = 1
        /\ ledger[1].fileHash = run[r].fileHash
        /\ ledger[1].status = "FAILED"
        /\ executions = <<>>

\* The errors Process returns before a record exists.
BeforeRecordErrors ==
    BeforeDedupErrors \cup { <<"failed to create master document">> }

\* C18: a run that returns because the download, the hashing, the dedup
\* query or the creation of the record failed returns that error in a step
\* that changes neither ledger nor page store nor executions, and it has
\* created no record, attempted no update and started no upload; the ledger
\* holds one record per run that created one.
C18_EarlyFailureLeavesNoTrace ==
    /\ [] /\ Len(ledger) = Cardinality({ r \in Runs : run[r].created })
          /\ \A r \in Runs :
                /\ run[r].err \in BeforeRecordErrors => ~run[r].created
                /\ (run[r].pc = "done" /\ ~run[r].created) =>
                      /\ run[r].err \in BeforeRecordErrors \cup {Nil}
                      /\ run[r].docRef = 0
                      /\ run[r].upd = NoUpdate
                      /\ \A p \in Pages : task[r][p] = InitTask
    /\ [][ \A r \in Runs :
              (run[r].pc \in {"idle", "dedup", "create"} /\ run'[r].pc = "done") =>
                  /\ ledger' = ledger
                  /\ pageStore' = pageStore
                  /\ executions' = executions
                  /\ run'[r].err = Nil =>
                        run[r].pc = "dedup" /\ RecordsWith(run[r].fileHash) # {}
                  /\ run[r].pc = "create" =>
                        run'[r].err = <<"failed to create master document">>
                  /\ run[r].pc = "idle" =>
                        run'[r].err \in BeforeDedupErrors ]_vars

\* The creation of the record failed: the run returned the error and the
\* ledger is empty.
C18_Witness ==
    \E r \in Runs :
        /\ run[r].pc = "done"
        /\ run[r].err = <<"failed to create master document">>
        /\ ledger = <<>>
        /\ pageStore = {}

\* The messages of the steps that end through handleError.
StepMessages ==
    { "failed to validate/optimize PDF", "failed to get page count",
      "failed to split PDF", "failed to update status to SPLITTING",
      "one or more pages failed to upload",
      "failed to trigger workflow execution" }

\* C19: when the update to FAILED failed, the run has returned the
\* processing error (the message of the step, then its cause), the record
\* keeps the status and the empty errorDetails it had, and once a run has
\* returned its record is not written again.
C19_FailedUpdateKeepsError ==
    /\ [] \A r \in Runs :
            (run[r].pc = "done" /\ run[r].upd # NoUpdate /\ ~run[r].upd.ok) =>
                /\ run[r].err = run[r].upd.errorDetails
                /\ Len(run[r].err) >= 2
                /\ Head(run[r].err) \in StepMessages
                /\ ledger[run[r].docRef].status \in {"VALIDATING", "SPLITTING"}
                /\ ledger[run[r].docRef].errorDetails = Nil
    /\ [][ \A r \in Runs :
              (run[r].pc = "done" /\ run[r].docRef # 0) =>
                  ledger'[run[r].docRef] = ledger[run[r].docRef] ]_vars

\* The upload failed and so did the update to FAILED: the record is still
\* SPLITTING and the run returned the upload's error.
C19_Witness ==
    \E r \in Runs :
        /\ run[r].pc = "done"
        /\ run[r].upd # NoUpdate /\ ~run[r].upd.ok
        /\ Head(run[r].err) = "one or more pages failed to upload"
        /\ ledger[run[r].docRef].status = "SPLITTING"

\* C20: a page object exists only for a document whose record holds a
\* pageCount that covers the page; a run has started an upload only if its
\* record holds its page count; and a run whose SPLITTING update failed has
\* started no upload and stored no page, its record holding no pageCount.
C20_PageCountBeforePages ==
    /\ \A o \in pageStore :
          /\ o.name[1] \in DOMAIN ledger
          /\ ledger[o.name[1]].pageCount > 0
          /\ \E p \in 1 .. ledger[o.name[1]].pageCount :
                o.name = gcsDestObject(o.name[1], p)
    /\ \A r \in Runs :
          /\ (\E p \in Pages : task[r][p] # InitTask) =>
                /\ run[r].pageCount > 0
                /\ ledger[run[r].docRef].pageCount = run[r].pageCount
          /\ ( /\ run[r].pc = "done"
               /\ run[r].err # Nil
               /\ Head(run[r].err) = "failed to update status to SPLITTING" ) =>
                /\ \A p \in Pages : task[r][p] = InitTask
                /\ ObjectsOf(pageStore, run[r].docRef) = {}
                /\ ledger[run[r].docRef].pageCount = 0

\* The first page of a document of several pages is stored while the second
\* is still being uploaded, the record holding the page count.
C20_Witness ==
    \E r \in Runs :
        /\ run[r].pc = "upload"
        /\ ledger[run[r].docRef].pageCount >= 2
        /\ ledger[run[r].docRef].status = "SPLITTING"
        /\ \E o \in pageStore : o.name = gcsDestObject(run[r].docRef, 1)
        /\ task[r][2].st = "attempt"

(***************************************************************************)
(* The keys of the page objects: the specification stores pages of one     *)
(* document under the keys uploadSplitPages gives them, for page numbers   *)
(* on both sides of every change of width.                                 *)
(***************************************************************************)
KeyPages == {1, 2, 9, 10, 11, 99, 100, 99999, 100000}

InitKeys ==
    /\ IdleIngest
    /\ objects = EmptyBuckets
    /\ call = [c \in Calls |-> IdleCall]

\* uploadSplitPages line 207 and the finalized writer of uploadFile: page p
\* of the document is stored under its key.
PutPage(p) ==
    /\ pageStore' = StorePut(pageStore, gcsDestObject(1, p), <<1, p>>)
    /\ UNCHANGED <<run, task, ledger, executions, tempDirs, clock, faults,
                   overlap, stageVars>>

NextKeys == \E p \in KeyPages : PutPage(p)

SpecKeys == InitKeys /\ [][NextKeys]_vars

\* C28 as stated: of any two page objects of a document, the one of the
\* lower page number has the key that sorts first, for all page numbers.
C28_KeysSortInPageOrder ==
    \A a \in pageStore, b \in pageStore :
        a.data[2] < b.data[2] => LexLess(a.name[2], b.name[2])

\* C28, amended: of any two page objects of a document with page numbers up
\* to 99999 (the numbers %05d writes in five digits), the one of the lower
\* page number has the key that sorts first.
C28_KeysSortInPageOrderTo99999 ==
    \A a \in pageStore, b \in pageStore :
        (a.data[2] < b.data[2] /\ b.data[2] <= 99999) =>
            LexLess(a.name[2], b.name[2])

\* Pages whose numbers differ in their count of digits are stored, up to
\* the last page of five digits.
C28_Witness ==
    \A p \in {2, 9, 10, 99, 100, 99999} :
        \E o \in pageStore : o.data[2] = p /\ o.name = gcsDestObject(1, p)

(***************************************************************************)
(* Properties of the ledger record and of a whole run (specification Spec).*)
(***************************************************************************)
\* C21: a record has errorDetails exactly when its status is FAILED, and the
\* errorDetails of a FAILED record are the non-empty error (the message of
\* the failed step, then its cause) that the run of the record returned.
C21_ErrorDetailsIffFailed ==
    \A d \in DOMAIN ledger :
        /\ ledger[d].errorDetails # Nil <=> ledger[d].status = "FAILED"
        /\ ledger[d].status = "FAILED" =>
              \E r \in Runs :
                  /\ run[r].docRef = d
                  /\ run[r].pc = "done"
                  /\ ledger[d].errorDetails = run[r].err
                  /\ Head(run[r].err) \in StepMessages

\* The trigger failed after every page was stored: the record is FAILED
\* with the error of the trigger.
C21_Witness ==
    \E d \in DOMAIN ledger :
        /\ ledger[d].status = "FAILED"
        /\ Head(ledger[d].errorDetails) = "failed to trigger workflow execution"
        /\ Len(ledger[d].errorDetails) >= 2

ExecutionsOf(doc) == { i \in DOMAIN executions : executions[i].documentId = doc }

\* C25: a run that created a record and returned nil leaves one record of
\* its fingerprint, with status SPLITTING and the page count N of the
\* file, exactly the page objects 00001 .. N (in five digits) of the
\* document, and one execution carrying the document's ID and N; and a run
\* on a well-formed file in a behaviour where nothing failed returns nil.
C25_CleanRunOutcome ==
    \A r \in Runs :
        /\ (run[r].pc = "done" /\ run[r].created /\ run[r].err = Nil) =>
              LET d == run[r].docRef
                  N == PagesOf(run[r].e.bytes)
              IN  /\ RecordsWith(run[r].fileHash) = {d}
                  /\ ledger[d].status = "SPLITTING"
                  /\ ledger[d].pageCount = N
                  /\ { o.name : o \in ObjectsOf(pageStore, d) }
                        = { <<d, Pad5(p)>> : p \in 1 .. N }
                  /\ Cardinality(ExecutionsOf(d)) = 1
                  /\ \A i \in ExecutionsOf(d) : executions[i].pageCount = N
        /\ ( /\ run[r].pc = "done"
             /\ faults = MaxFaults
             /\ ~Corrupt(run[r].e.bytes) ) =>
              /\ run[r].err = Nil
              /\ ~run[r].created => RecordsWith(run[r].fileHash) # {}

\* A file of several pages went through without any failure.
C25_Witness ==
    \E r \in Runs :
        /\ run[r].pc = "done" /\ run[r].created /\ run[r].err = Nil
        /\ faults = MaxFaults
        /\ ledger[run[r].docRef].pageCount >= 2
        /\ Cardinality(ObjectsOf(pageStore, run[r].docRef)) >= 2
        /\ Cardinality(ExecutionsOf(run[r].docRef)) = 1

\* C27: no step changes the createdAt, the fileHash or the originalFilename
\* of a record that exists.
C27_CreationFieldsImmutable ==
    [][ \A d \in DOMAIN ledger :
           /\ d \in DOMAIN ledger'
           /\ ledger'[d].createdAt = ledger[d].createdAt
           /\ ledger'[d].fileHash = ledger[d].fileHash
           /\ ledger'[d].originalFilename = ledger[d].originalFilename ]_vars

\* Two records, created one after the other, the first since updated to
\* SPLITTING and to FAILED, the second to SPLITTING: each has the time and
\* the fingerprint it was created with.
C27_Witness ==
    /\ Len(ledger) = 2
    /\ ledger[1].status = "FAILED" /\ ledger[1].pageCount > 0
    /\ ledger[2].status = "SPLITTING"
    /\ ledger[1].createdAt < ledger[2].createdAt
    /\ \A r \in Runs : ledger[run[r].docRef].fileHash = run[r].fileHash

C29_NilOnlyWhenStored ==
    \A c \in Calls :
        (call[c].pc = "done" /\ call[c].bucket # "") =>
            /\ call[c].saveErr = Nil =>
                  /\ Exists(call[c].bucket, call[c].name)
                  /\ call[c].precond \in {"none", "copy"}
                  /\ call[c].precond = "none" =>
                        objects[call[c].bucket][call[c].name] = call[c].content
            /\ call[c].saveErr # Nil =>
                  /\ Head(call[c].saveErr) \in { "failed to write to GCS",
                                                 "failed to finalize GCS write" }
                  /\ call[c].stage \in {"translator", "cleaner"} =>
                        /\ call[c].err = call[c].saveErr
                        /\ call[c].status = ""
            /\ ~Exists(call[c].bucket, call[c].name) => call[c].saveErr # Nil

\* Close failed for a cause other than the precondition: the object is not
\* there and the call returned the error.
C29_Witness ==
    \E c \in Calls :
        /\ call[c].pc = "done"
        /\ call[c].stage = "translator"
        /\ call[c].saveErr = <<"failed to finalize GCS write">>
        /\ call[c].err = call[c].saveErr
        /\ ~Exists(call[c].bucket, call[c].name)

(***************************************************************************)
(* Properties of overlapping invocations (specification SpecOverlap).      *)
(***************************************************************************)
\* The runs that created a record and stored every page of it.
StoredAll(r) ==
    /\ run[r].created
    /\ run[r].pageCount > 0
    /\ \A p \in 1 .. run[r].pageCount :
          \E o \in pageStore : o.name = <<run[r].docRef, Pad5(p)>>

\* C23: two records of one fingerprint are created only by runs that
\* overlap: of two runs on the same bytes of which one began after the
\* other returned, at most one created a record. (That overlapping runs
\* do create two records, each with its pages, is the witness.)
C23_OneRecordUnlessOverlap ==
    /\ \A a \in Runs, b \in Runs :
          ( /\ a \in run[b].after
            /\ run[a].e.bytes = run[b].e.bytes ) =>
              ~(run[a].created /\ run[b].created)
    /\ \A d1 \in DOMAIN ledger, d2 \in DOMAIN ledger :
          (d1 # d2 /\ ledger[d1].fileHash = ledger[d2].fileHash) =>
              \E a \in Runs, b \in Runs :
                  /\ run[a].docRef = d1 /\ run[b].docRef = d2
                  /\ a \notin run[b].after /\ b \notin run[a].after

\* Two runs on the same bytes both queried before either created its
\* record: two records of the fingerprint, each with all its pages.
C23_Witness ==
    \E a \in Runs, b \in Runs :
        /\ a # b
        /\ run[a].e.bytes = run[b].e.bytes
        /\ StoredAll(a) /\ StoredAll(b)
        /\ run[a].docRef # run[b].docRef
        /\ ledger[run[a].docRef].fileHash = ledger[run[b].docRef].fileHash
        /\ run[a].pc = "done" /\ run[b].pc = "done"
        /\ run[a].err = Nil /\ run[b].err = Nil

\* C24: a run that returned, with nil or with an error of any step, has no
\* directory left; the directories that exist are those of the runs in
\* progress, and no two runs have the same.
C24_TempDirRemovedAndExclusive ==
    /\ \A r \in Runs : run[r].pc \in {"idle", "done"} => run[r].tempDir = 0
    /\ \A r \in Runs : run[r].pc \notin {"idle", "done"} => run[r].tempDir \in tempDirs
    /\ tempDirs = { run[r].tempDir : r \in { q \in Runs : run[q].tempDir # 0 } }
    /\ \A a \in Runs, b \in Runs :
          (a # b /\ run[a].tempDir # 0) => run[a].tempDir # run[b].tempDir

\* One run returned from a failure in the middle of the upload while the
\* other is still uploading: only the directory of the other exists.
C24_Witness ==
    \E a \in Runs, b \in Runs :
        /\ a # b
        /\ run[a].pc = "done"
        /\ run[a].err # Nil
        /\ Head(run[a].err) = "one or more pages failed to upload"
        /\ \E o \in pageStore : o.name[1] = run[a].docRef
        /\ b \notin run[a].after /\ a \notin run[b].after
        /\ run[b].pc = "upload"
        /\ tempDirs = {run[b].tempDir}

\* C26: every record has one run, the one that created it, and a step
\* that changes a record is a step of that run, whatever the interleaving
\* and also when the runs carry the same bytes.
C26_RecordUpdatedByCreatorOnly ==
    /\ [] \A d \in DOMAIN ledger :
            /\ Cardinality({ r \in Runs : run[r].docRef = d }) = 1
            /\ \A r \in Runs : run[r].docRef = d => run[r].created
            /\ \A r \in Runs :
                  (run[r].upd.doc # 0) => run[r].upd.doc = run[r].docRef
    /\ [][ \A d \in DOMAIN ledger :
              ledger'[d] # ledger[d] =>
                  \E r \in Runs : /\ run[r].docRef = d
                                  /\ run[r].created
                                  /\ run'[r] # run[r]
                                  /\ \A q \in Runs : q # r => run'[q] = run[q] ]_vars

\* Two overlapping runs on the same bytes each created a record; one failed
\* and marked its own record, the record of the other is untouched.
C26_Witness ==
    \E a \in Runs, b \in Runs :
        /\ a # b
        /\ run[a].created /\ run[b].created
        /\ run[a].fileHash = run[b].fileHash
        /\ run[a].pc = "done" /\ run[a].upd.ok
        /\ ledger[run[a].docRef].status = "FAILED"
        /\ ledger[run[b].docRef].status = "SPLITTING"
        /\ ledger[run[b].docRef].errorDetails = Nil

(***************************************************************************)
(* Properties of uploadFile and of the launcher (specification SpecUpload).*)
(***************************************************************************)
\* The error of an attempt whose finalize failed.
CloseError == <<"failed to close GCS writer (finalize upload)">>

\* The waits of uploadFile, in seconds, by the value of its loop counter.
Waits == <<1, 2, 4, 8>>

\* C31: a task returns nil only with its object in the store (Close
\* succeeded); an attempt that fails, at Close as at the copy, stores
\* nothing, reports nothing to the group and enters the wait with the loop
\* counter and the backoff it had, and a task whose last failure was one of
\* Close is at the same point of the schedule as any other.
C31_CloseFailureIsAttemptFailure ==
    /\ [] \A r \in Runs, p \in Pages :
            /\ (task[r][p].st = "done" /\ task[r][p].res = Nil) =>
                  \E o \in pageStore : o.name = <<run[r].docRef, Pad5(p)>>
            /\ (task[r][p].st \in {"attempt", "wait"}) =>
                  /\ task[r][p].attempts = task[r][p].i + 1
                  /\ task[r][p].backoff = Waits[task[r][p].i + 1]
    /\ [][ \A r \in Runs, p \in Pages :
              (task[r][p].st = "attempt" /\ task'[r][p].st = "wait") =>
                  /\ task'[r][p].lastErr \in AttemptErrors
                  /\ task'[r][p].i = task[r][p].i
                  /\ task'[r][p].backoff = task[r][p].backoff
                  /\ task'[r][p].attempts = task[r][p].attempts
                  /\ task'[r][p].res = Nil
                  /\ run'[r] = run[r]
                  /\ pageStore' = pageStore ]_vars

\* After a failure of Close the wait of one second elapsed and the second
\* attempt is in flight.
C31_Witness ==
    \E r \in Runs, p \in Pages :
        /\ task[r][p].st = "attempt"
        /\ task[r][p].lastErr = CloseError
        /\ task[r][p].attempts = 2
        /\ task[r][p].backoff = 2
        /\ \A o \in pageStore : o.name # <<run[r].docRef, Pad5(p)>>

\* C32: a task begins at most 4 attempts; an attempt after the first begins
\* only by the elapse of the wait that followed the one before it; and the
\* wait after attempt k is the k-th of 1, 2, 4, 8 seconds.
C32_FourAttemptsDoublingWaits ==
    /\ [] \A r \in Runs, p \in Pages :
            /\ task[r][p].attempts <= 4
            /\ task[r][p].st = "wait" =>
                  /\ task[r][p].attempts \in 1 .. 4
                  /\ task[r][p].backoff = Waits[task[r][p].attempts]
    /\ [][ \A r \in Runs, p \in Pages :
              ( /\ task'[r][p].attempts > task[r][p].attempts
                /\ task[r][p].attempts >= 1 ) =>
                  /\ task[r][p].st = "wait"
                  /\ ~GroupCancelled(r)
                  /\ task'[r][p].attempts = task[r][p].attempts + 1
                  /\ task'[r][p].backoff = 2 * task[r][p].backoff ]_vars

\* The fourth attempt failed and the task waits 8 seconds, after waits of
\* 1, 2 and 4.
C32_Witness ==
    \E r \in Runs, p \in Pages :
        /\ task[r][p].st = "wait"
        /\ task[r][p].attempts = 4
        /\ task[r][p].i = 3
        /\ task[r][p].backoff = 8

\* C35: the loop launches every page: the engine returns only when each of
\* the pages 1..N has begun an attempt, also when the group has an error;
\* a task launched on a context that is done makes one attempt, which
\* fails on the context, and returns the cancellation error in the same
\* step without a wait; it stores nothing.
C35_LaunchedAfterCancellation ==
    /\ [] \A r \in Runs :
            /\ (run[r].pc \in {"trigger", "done"} /\ run[r].pageCount > 0) =>
                  \A p \in 1 .. run[r].pageCount :
                      task[r][p].st = "done" /\ task[r][p].attempts >= 1
            /\ \A p \in Pages :
                  task[r][p].late =>
                      /\ task[r][p].st = "done"
                      /\ task[r][p].attempts = 1
                      /\ task[r][p].lastErr = AbortedError
                      /\ task[r][p].res = ErrCanceled
                      /\ \A o \in pageStore : o.name # <<run[r].docRef, Pad5(p)>>
    /\ [][ \A r \in Runs, p \in Pages :
              ( /\ GroupCancelled(r)
                /\ task[r][p].st = "pending"
                /\ run[r].pc = "upload"
                /\ run[r].next = p
                /\ run'[r].next # run[r].next ) =>
                  /\ task'[r][p].late
                  /\ task'[r][p].attempts = 1
                  /\ pageStore' = pageStore ]_vars

\* Page 1 exhausted its retries and cancelled the group before page 2 was
\* launched; page 2 was launched all the same, made its one attempt and
\* returned the cancellation.
C35_Witness ==
    \E r \in Runs :
        /\ ~run[r].cancelled
        /\ Exhausted(task[r][1])
        /\ task[r][2].late
        /\ task[r][2].attempts = 1
        /\ task[r][2].res = ErrCanceled
        /\ run[r].gerr = PageError(1, task[r][1].res)

\* C36: the failure of the fourth attempt is not reported at once: the task
\* enters the wait of 8 seconds with the group untouched; when the wait
\* elapses it returns the error that wraps the last failure, which cancels
\* the group if no error came before; when the context is done during the
\* wait it returns the bare cancellation error.
C36_FinalWaitBeforeFailure ==
    /\ [] \A r \in Runs, p \in Pages :
            (task[r][p].st = "wait" /\ task[r][p].attempts = 4) =>
                /\ task[r][p].backoff = 8
                /\ task[r][p].res = Nil
                /\ run[r].gerr # Nil => run[r].gerr[2] # ToString(p)
    /\ [][ \A r \in Runs, p \in Pages :
              /\ ( /\ task[r][p].st = "attempt"
                   /\ task[r][p].attempts = 4
                   /\ ~GroupCancelled(r)
                   /\ task'[r][p] # task[r][p]
                   /\ task'[r][p].res # Nil ) => FALSE
              /\ ( /\ task[r][p].st = "wait"
                   /\ task[r][p].attempts = 4
                   /\ task'[r][p] # task[r][p] ) =>
                     /\ task'[r][p].st = "done"
                     /\ IF GroupCancelled(r)
                        THEN task'[r][p].res = ErrCanceled
                        ELSE /\ task'[r][p].res =
                                  <<"upload failed after all retries">>
                                     \o task[r][p].lastErr
                             /\ run'[r].gcancel ]_vars

\* The caller cancelled during the wait that followed the fourth failure:
\* the task returned the cancellation, and the group's error does not hold
\* the failure of the upload.
C36_Witness ==
    \E r \in Runs, p \in Pages :
        /\ task[r][p].st = "done"
        /\ task[r][p].attempts = 4
        /\ task[r][p].i = 3
        /\ task[r][p].lastErr \in AttemptErrors
        /\ task[r][p].res = ErrCanceled
        /\ run[r].gerr = PageError(p, ErrCanceled)

C33_FailedContentNeverReprocessed ==
    /\ [] \A d \in DOMAIN ledger :
            ledger[d].status = "FAILED" =>
                /\ RecordsWith(ledger[d].fileHash) = {d}
                /\ ExecutionsOf(d) = {}
    /\ [] \A a \in Runs, b \in Runs :
            ( /\ Resubmitted(a, b)
              /\ ledger[run[a].docRef].status = "FAILED" ) =>
                /\ run[b].err = Nil
                /\ ~run[b].created
                /\ run[b].pageCount = 0
                /\ \A p \in Pages : task[b][p] = InitTask
    /\ [][ \A d \in DOMAIN ledger :
              ledger[d].status = "FAILED" =>
                  /\ ledger'[d] = ledger[d]
                  /\ ObjectsOf(pageStore', d) = ObjectsOf(pageStore, d)
                  /\ \A i \in DOMAIN executions' :
                        executions'[i].documentId # d ]_vars

\* A document failed in the upload with a page stored; its content came
\* again and the run returned nil: one record, FAILED, and no execution.
C33_Witness ==
    \E a \in Runs, b \in Runs :
        /\ Resubmitted(a, b)
        /\ ledger[run[a].docRef].status = "FAILED"
        /\ ledger[run[a].docRef].pageCount > 0
        /\ ObjectsOf(pageStore, run[a].docRef) # {}
        /\ run[b].err = Nil
        /\ Len(ledger) = 1
        /\ executions = <<>>

\* C34: after an upload failure the update to FAILED is attempted on the
\* record of the run. When the caller's context was cancelled it failed:
\* the run returned the error and the record is SPLITTING without
\* errorDetails. When it succeeded the caller's context was not cancelled
\* (the group's was) and the record is FAILED with the error; and the
\* cancellation of the group alone never makes it fail: with no fault left
\* to happen it succeeds.
C34_FailedUpdateOnCallerContext ==
    /\ [] \A r \in Runs :
            (run[r].pc = "done" /\ run[r].gerr # Nil) =>
                /\ run[r].gcancel
                /\ run[r].err = <<"one or more pages failed to upload">> \o run[r].gerr
                /\ run[r].upd.doc = run[r].docRef
                /\ run[r].upd.status = "FAILED"
                /\ run[r].cancelled =>
                      /\ ~run[r].upd.ok
                      /\ ledger[run[r].docRef].status = "SPLITTING"
                      /\ ledger[run[r].docRef].errorDetails = Nil
                /\ run[r].upd.ok =>
                      /\ ~run[r].cancelled
                      /\ ledger[run[r].docRef].status = "FAILED"
                      /\ ledger[run[r].docRef].errorDetails = run[r].err
    /\ [][ \A r \in Runs :
              ( /\ run[r].pc = "upload"
                /\ run'[r].pc = "done"
                /\ ~run[r].cancelled
                /\ faults = 0 ) => run'[r].upd.ok ]_vars

\* One run failed on a page with its caller's context live: its record is
\* FAILED. The other was cancelled by its caller during the upload: it
\* returned an error and its record is SPLITTING without errorDetails.
C34_Witness ==
    \E a \in Runs, b \in Runs :
        /\ run[a].pc = "done" /\ run[b].pc = "done"
        /\ run[a].gerr # Nil /\ run[b].gerr # Nil
        /\ ~run[a].cancelled /\ run[a].gcancel /\ run[a].upd.ok
        /\ ledger[run[a].docRef].status = "FAILED"
        /\ run[b].cancelled /\ ~run[b].upd.ok
        /\ run[b].err # Nil
        /\ ledger[run[b].docRef].status = "SPLITTING"
        /\ ledger[run[b].docRef].errorDetails = Nil

(***************************************************************************)
(* Properties of the aggregator (specification SpecAggregator).            *)
(***************************************************************************)
\* The pages k .. n of a sorted list of names, each whole and followed by
\* the separator.
RECURSIVE WholePages(_, _, _)
WholePages(names, k, n) ==
    IF k > n THEN <<>>
    ELSE <<Chunk(objects.translated[names[k]], TRUE), Separator>>
            \o WholePages(names, k + 1, n)

\* What the loop of a call had written before the page it is at.
PagesBefore(cl) == WholePages(cl.names, 1, cl.i - 1)

\* The call leaves the loop's end with an error of the loop.
LoopFailedReturns(c) ==
    /\ call[c].pc = "aggclose"
    /\ call[c].aggErr # Nil
    /\ call'[c].pc = "done"

\* C38 as stated: a call whose loop failed returns an error and master.md
\* then holds the pages before the failure and nothing else.
C38_PagesBeforeFailureStored ==
    [][ \A c \in Calls :
           LoopFailedReturns(c) =>
               /\ call'[c].err # Nil
               /\ call[c].name \in DOMAIN objects'.aggregated
               /\ objects'.aggregated[call[c].name] = PagesBefore(call[c]) ]_vars

\* C38, amended: a call whose loop failed closes the writer and returns an
\* error. When Close succeeds the error is the loop's and master.md is
\* created or replaced by what was written: the pages before the failure
\* and, when the copy of a page broke off, the part of that page already
\* copied; after a failed read it is the pages before the failure alone.
\* When Close fails (as it does once a write to the destination failed)
\* the error is that of the finalize and master.md is left as it was.
C38_WrittenPartStoredOnFailure ==
    [][ \A c \in Calls :
           LoopFailedReturns(c) =>
               LET objName == call[c].names[call[c].i]
                   part == Chunk(objects.translated[objName], FALSE)
               IN  /\ call'[c].err \in { call[c].aggErr,
                                         <<"failed to finalize master.md">> }
                   /\ call'[c].status = ""
                   /\ call'[c].err = call[c].aggErr =>
                         /\ call[c].name \in DOMAIN objects'.aggregated
                         /\ objects'.aggregated[call[c].name] \in
                               { PagesBefore(call[c]),
                                 PagesBefore(call[c]) \o <<part>> }
                         /\ Head(call[c].aggErr) = "failed to read" =>
                               objects'.aggregated[call[c].name]
                                  = PagesBefore(call[c])
                   /\ call'[c].err # call[c].aggErr => objects' = objects ]_vars

\* The read of the second page failed: the call returned that error and
\* master.md holds the first page and its separator.
C38_Witness ==
    \E c \in Calls :
        /\ call[c].pc = "done"
        /\ call[c].stage = "aggregator"
        /\ call[c].aggErr # Nil
        /\ Head(call[c].aggErr) = "failed to read"
        /\ call[c].err = call[c].aggErr
        /\ call[c].i = 2
        /\ Exists("aggregated", call[c].name)
        /\ objects.aggregated[call[c].name] = PagesBefore(call[c])
        /\ Len(objects.aggregated[call[c].name]) = 2

\* The page numbers in ascending order.
RECURSIVE InPageOrder(_)
InPageOrder(pages) ==
    IF pages = {} THEN <<>>
    ELSE LET least == CHOOSE p \in pages : \A q \in pages : p <= q
         IN  <<least>> \o InPageOrder(pages \ {least})

\* The translated pages of the document, in page order, each followed by
\* the separator.
RECURSIVE MasterOf(_)
MasterOf(pageSeq) ==
    IF pageSeq = <<>> THEN <<>>
    ELSE << Chunk(objects.translated[PageObjectName("d", Head(pageSeq))], TRUE),
            Chunk("\n\n---\n\n", TRUE) >> \o MasterOf(Tail(pageSeq))

\* The pages of the document that have a translated object.
TranslatedPages ==
    { p \in StagePages : PageObjectName("d", p) \in DOMAIN objects.translated }

SectionSaveReturns(c) ==
    /\ call[c].stage = "sections"
    /\ call[c].pc \in {"copy", "close"}
    /\ \/ call'[c].pc = "done"
       \/ call'[c].pc = "copy" /\ call'[c].i = call[c].i + 1

====
